---- MODULE Spec2Model ----
(***************************************************************************)
(* Decision-to-execution pipeline of the auto trading bot: signal          *)
(* lifecycle, risk engine, approval coordinator, trade executor and        *)
(* portfolio ledger.                                                       *)
(*                                                                         *)
(* Money is in whole dollars.  Values the code computes by float division  *)
(* (average cost, stop-loss, P&L) are exact rationals [n, d] in lowest     *)
(* terms.  Time is the calendar day of utcnow().                           *)
(***************************************************************************)
EXTENDS Integers, Sequences, FiniteSets, TLC

VARIABLES
    signals,    \* signals table: id -> row (symbol, action, price, quantity, status, trade_id)
    obj,        \* status attribute cached in the Signal object a caller holds for each id
    cash,       \* PortfolioManager._cash_balance
    holdings,   \* holdings table: symbol -> row, for the symbols held
    trades,     \* trades table, in insertion order
    paused,     \* trading_state['trading_paused'] = 'true'
    logged_in,  \* WebullClient._logged_in
    is_paper,   \* config.paper_trading.enabled
    today,      \* calendar day of utcnow()
    faults,     \* number of storage failures injected so far
    snapshot_peak, \* peak_value of the latest portfolio_snapshots row (0: no row)
    scheduler,  \* TradingBot.scheduler: the clock and what each job's thread is doing
    wait,       \* the polling loop in progress: its kind, signal, clock and venue order
    telegram,   \* the Bot API's update queue, TelegramBot._last_update_id and the wait it serves
    last        \* the most recent call and what it returned

vars == <<signals, obj, cash, holdings, trades, paused, logged_in, is_paper,
          today, faults, snapshot_peak, scheduler, wait, telegram, last>>

----------------------------------------------------------------------------
(* Bounds *)

NumSignals == 2
MaxTrades == 5
MaxDay == 1
MaxFaults == 1
MaxHist == 4
MaxInbox == 2
MaxLedgerOps == 3
MaxMinute == 45
QuotedPrice == 60

(* Configuration defaults *)

initial_budget == 1000
max_position_pct == 33
max_holdings == 2
stop_loss_pct == -5
take_profit_pct == 10
max_drawdown_pct == -15
max_daily_trades == 4
pdt_limit == 3
pdt_window_days == 7
approval_timeout_minutes == 15
urgent_timeout_minutes == 5

max_position_value == (initial_budget * max_position_pct) \div 100

----------------------------------------------------------------------------
(* Value domains *)

Sigs == 1..NumSignals
Symbols == {"X", "Y", "Z"}
Actions == {"BUY", "SELL"}
SuggestedPrice == 150
Quantities == {2, 3}
FillPrices == {151}

PENDING == "PENDING"
APPROVED == "APPROVED"
REJECTED == "REJECTED"
EXECUTED == "EXECUTED"
EXPIRED == "EXPIRED"
CANCELLED == "CANCELLED"

SignalStatus == {PENDING, APPROVED, REJECTED, EXECUTED, EXPIRED, CANCELLED}
Terminal == {EXECUTED, REJECTED, EXPIRED, CANCELLED}

NoTrade == 0
NoPrice == 0

----------------------------------------------------------------------------
(* Exact arithmetic for the values the code keeps as floats *)

Abs(x) == IF x < 0 THEN -x ELSE x

RECURSIVE GCD(_, _)
GCD(a, b) == IF b = 0 THEN a ELSE GCD(b, a % b)

Rat(n, d) ==
    LET g == GCD(Abs(n), Abs(d))
        s == IF d < 0 THEN -1 ELSE 1
    IN  [n |-> (s * n) \div g, d |-> (s * d) \div g]

RatInt(i) == [n |-> i, d |-> 1]
RatAdd(a, b) == Rat(a.n * b.d + b.n * a.d, a.d * b.d)
RatSub(a, b) == Rat(a.n * b.d - b.n * a.d, a.d * b.d)
RatMul(a, b) == Rat(a.n * b.n, a.d * b.d)
RatDiv(a, b) == Rat(a.n * b.d, a.d * b.n)
RatLeq(a, b) == a.n * b.d <= b.n * a.d
RatLt(a, b) == a.n * b.d < b.n * a.d

----------------------------------------------------------------------------
(* Risk engine (portfolio/risk.py) *)

\* check_position_size without the comparison against available_cash
check_position_size_nocash(price, quantity, available_cash) ==
    IF price * quantity > max_position_value
    THEN [ok |-> FALSE, reason |-> "position"]
    ELSE [ok |-> TRUE, reason |-> "ok"]

check_position_size(price, quantity, available_cash) ==
    LET position_value == price * quantity IN
    IF position_value > max_position_value THEN [ok |-> FALSE, reason |-> "position"]
    ELSE IF position_value > available_cash THEN [ok |-> FALSE, reason |-> "position"]
    ELSE [ok |-> TRUE, reason |-> "ok"]

\* check_holdings_limit with current_holdings > max_holdings in place of >=
check_holdings_limit_over(current_holdings) ==
    IF current_holdings > max_holdings
    THEN [ok |-> FALSE, reason |-> "holdings"]
    ELSE [ok |-> TRUE, reason |-> "ok"]

check_holdings_limit(current_holdings) ==
    IF current_holdings >= max_holdings
    THEN [ok |-> FALSE, reason |-> "holdings"]
    ELSE [ok |-> TRUE, reason |-> "ok"]

\* check_drawdown with drawdown_pct < max_drawdown in place of <=
check_drawdown_strict(current_value, peak_value) ==
    IF RatLeq(peak_value, RatInt(0))
    THEN [ok |-> TRUE, should_pause |-> FALSE]
    ELSE IF RatLt(RatMul(RatSub(current_value, peak_value), RatInt(100)),
                  RatMul(RatInt(max_drawdown_pct), peak_value))
         THEN [ok |-> FALSE, should_pause |-> TRUE]
         ELSE [ok |-> TRUE, should_pause |-> FALSE]

\* current_value and peak_value are rationals; drawdown_pct <= max_drawdown
\* is compared after multiplying through by peak_value > 0.
check_drawdown(current_value, peak_value) ==
    IF RatLeq(peak_value, RatInt(0))
    THEN [ok |-> TRUE, should_pause |-> FALSE]
    ELSE IF RatLeq(RatMul(RatSub(current_value, peak_value), RatInt(100)),
                   RatMul(RatInt(max_drawdown_pct), peak_value))
         THEN [ok |-> FALSE, should_pause |-> TRUE]
         ELSE [ok |-> TRUE, should_pause |-> FALSE]

\* check_daily_trades with trade_count > max_trades in place of >=
check_daily_trades_over(trs, day) ==
    IF Cardinality({i \in 1..Len(trs) : trs[i].day >= day}) > max_daily_trades
    THEN [ok |-> FALSE, reason |-> "daily"]
    ELSE [ok |-> TRUE, reason |-> "ok"]

\* trades with executed_at >= today 00:00
check_daily_trades(trs, day) ==
    LET trade_count == Cardinality({i \in 1..Len(trs) : trs[i].day >= day}) IN
    IF trade_count >= max_daily_trades
    THEN [ok |-> FALSE, reason |-> "daily"]
    ELSE [ok |-> TRUE, reason |-> "ok"]

\* The loop of check_pdt_rule over the trades of the window, oldest first:
\* a BUY marks (symbol, date); every SELL whose (symbol, date) is marked
\* counts one day trade.
RECURSIVE count_day_trades(_, _, _)
count_day_trades(trs, i, buys) ==
    IF i > Len(trs) THEN 0
    ELSE LET t == trs[i]
             key == <<t.symbol, t.day>>
         IN  IF t.action = "BUY"
             THEN count_day_trades(trs, i + 1, buys \cup {key})
             ELSE (IF key \in buys THEN 1 ELSE 0) + count_day_trades(trs, i + 1, buys)

check_pdt_rule(trs, day) ==
    LET window == SelectSeq(trs, LAMBDA t : t.day >= day - pdt_window_days)
        day_trades == count_day_trades(window, 1, {})
    IN  IF day_trades >= pdt_limit
        THEN [ok |-> FALSE, reason |-> "pdt"]
        ELSE [ok |-> TRUE, reason |-> "ok"]

\* is_trading_paused that never reports the flag
is_trading_paused_off(p) == FALSE

is_trading_paused(p) == p

\* pre_trade_check that runs the BUY-only checks before the daily-trade and
\* PDT checks
pre_trade_check_buy_first(p, trs, day, action, quantity, price, available_cash, current_holdings, portfolio_value, peak_value) ==
    IF is_trading_paused(p)
    THEN [ok |-> FALSE, reason |-> "paused", paused |-> p]
    ELSE IF check_drawdown(portfolio_value, peak_value).should_pause
    THEN [ok |-> FALSE, reason |-> "drawdown", paused |-> TRUE]
    ELSE IF action = "BUY" /\ ~check_holdings_limit(current_holdings).ok
    THEN [ok |-> FALSE, reason |-> "holdings", paused |-> p]
    ELSE IF action = "BUY" /\ ~check_position_size(price, quantity, available_cash).ok
    THEN [ok |-> FALSE, reason |-> "position", paused |-> p]
    ELSE IF ~check_daily_trades(trs, day).ok
    THEN [ok |-> FALSE, reason |-> "daily", paused |-> p]
    ELSE IF ~check_pdt_rule(trs, day).ok
    THEN [ok |-> FALSE, reason |-> "pdt", paused |-> p]
    ELSE [ok |-> TRUE, reason |-> "ok", paused |-> p]

\* pre_trade_check whose rejections by the later checks also set the pause
\* flag
pre_trade_check_pausing(p, trs, day, action, quantity, price, available_cash, current_holdings, portfolio_value, peak_value) ==
    IF is_trading_paused(p)
    THEN [ok |-> FALSE, reason |-> "paused", paused |-> p]
    ELSE IF check_drawdown(portfolio_value, peak_value).should_pause
    THEN [ok |-> FALSE, reason |-> "drawdown", paused |-> TRUE]
    ELSE IF ~check_daily_trades(trs, day).ok
    THEN [ok |-> FALSE, reason |-> "daily", paused |-> TRUE]
    ELSE IF ~check_pdt_rule(trs, day).ok
    THEN [ok |-> FALSE, reason |-> "pdt", paused |-> TRUE]
    ELSE IF action = "BUY" /\ ~check_holdings_limit(current_holdings).ok
    THEN [ok |-> FALSE, reason |-> "holdings", paused |-> p]
    ELSE IF action = "BUY" /\ ~check_position_size(price, quantity, available_cash).ok
    THEN [ok |-> FALSE, reason |-> "position", paused |-> p]
    ELSE [ok |-> TRUE, reason |-> "ok", paused |-> p]

\* Result: allowed, the check that decided, and the pause flag afterwards
\* (pause_trading is called only on a drawdown breach).
pre_trade_check(p, trs, day, action, quantity, price, available_cash, current_holdings, portfolio_value, peak_value) ==
    IF is_trading_paused(p)
    THEN [ok |-> FALSE, reason |-> "paused", paused |-> p]
    ELSE IF check_drawdown(portfolio_value, peak_value).should_pause
    THEN [ok |-> FALSE, reason |-> "drawdown", paused |-> TRUE]
    ELSE IF ~check_daily_trades(trs, day).ok
    THEN [ok |-> FALSE, reason |-> "daily", paused |-> p]
    ELSE IF ~check_pdt_rule(trs, day).ok
    THEN [ok |-> FALSE, reason |-> "pdt", paused |-> p]
    ELSE IF action = "BUY" /\ ~check_holdings_limit(current_holdings).ok
    THEN [ok |-> FALSE, reason |-> "holdings", paused |-> p]
    ELSE IF action = "BUY" /\ ~check_position_size(price, quantity, available_cash).ok
    THEN [ok |-> FALSE, reason |-> "position", paused |-> p]
    ELSE [ok |-> TRUE, reason |-> "ok", paused |-> p]

----------------------------------------------------------------------------
(* Portfolio ledger (portfolio/manager.py, db/models.py) *)

get_holdings_count(hs) == Cardinality(DOMAIN hs)

RECURSIVE holdings_value(_, _, _)
holdings_value(hs, quote, syms) ==
    IF syms = {} THEN RatInt(0)
    ELSE LET sym == CHOOSE x \in syms : TRUE
             h == hs[sym]
             current_price == IF quote[sym] # NoPrice THEN RatInt(quote[sym])
                              ELSE h.avg_buy_price
         IN  RatAdd(RatMul(current_price, RatInt(h.quantity)),
                    holdings_value(hs, quote, syms \ {sym}))

\* quote[sym] is what _get_current_price returns (NoPrice: unavailable)
get_portfolio_value(c, hs, quote) ==
    LET hv == holdings_value(hs, quote, DOMAIN hs) IN
    [cash_balance |-> c,
     holdings_value |-> hv,
     total_value |-> RatAdd(RatInt(c), hv),
     num_holdings |-> Cardinality(DOMAIN hs)]

\* stop-loss and take-profit prices pct dollars away from the price
Pct_points(price, pct) == RatInt(price + pct)

Pct(price, pct) == Rat(price * (100 + pct), 100)

\* update_or_create_holding whose update derives the stop-loss and
\* take-profit prices from the new weighted-average cost
update_or_create_holding_avg_stops(hs, symbol, quantity, avg_price, stop_loss, take_profit, now) ==
    [s \in DOMAIN hs \cup {symbol} |->
        IF s # symbol THEN hs[s]
        ELSE IF symbol \in DOMAIN hs
        THEN LET total_cost == RatAdd(hs[s].total_cost, RatInt(quantity * avg_price))
                 avg == RatDiv(total_cost, RatInt(hs[s].quantity + quantity))
             IN  [quantity |-> hs[s].quantity + quantity,
                  avg_buy_price |-> avg,
                  total_cost |-> total_cost,
                  stop_loss_price |-> RatMul(avg, Rat(100 + stop_loss_pct, 100)),
                  take_profit_price |-> RatMul(avg, Rat(100 + take_profit_pct, 100)),
                  first_bought_at |-> hs[s].first_bought_at]
        ELSE [quantity |-> quantity,
              avg_buy_price |-> RatInt(avg_price),
              total_cost |-> RatInt(quantity * avg_price),
              stop_loss_price |-> stop_loss,
              take_profit_price |-> take_profit,
              first_bought_at |-> now]]

\* update_or_create_holding whose update takes the mean of the old average
\* and the new price
update_or_create_holding_mean(hs, symbol, quantity, avg_price, stop_loss, take_profit, now) ==
    [s \in DOMAIN hs \cup {symbol} |->
        IF s # symbol THEN hs[s]
        ELSE IF symbol \in DOMAIN hs
        THEN [quantity |-> hs[s].quantity + quantity,
              avg_buy_price |-> RatDiv(RatAdd(hs[s].avg_buy_price, RatInt(avg_price)),
                                       RatInt(2)),
              total_cost |-> RatAdd(hs[s].total_cost, RatInt(quantity * avg_price)),
              stop_loss_price |-> stop_loss,
              take_profit_price |-> take_profit,
              first_bought_at |-> hs[s].first_bought_at]
        ELSE [quantity |-> quantity,
              avg_buy_price |-> RatInt(avg_price),
              total_cost |-> RatInt(quantity * avg_price),
              stop_loss_price |-> stop_loss,
              take_profit_price |-> take_profit,
              first_bought_at |-> now]]

update_or_create_holding(hs, symbol, quantity, avg_price, stop_loss, take_profit, now) ==
    IF symbol \in DOMAIN hs
    THEN LET holding == hs[symbol]
             total_shares == holding.quantity + quantity
             total_cost == RatAdd(holding.total_cost, RatInt(quantity * avg_price))
         IN  [hs EXCEPT ![symbol] =
                 [quantity |-> total_shares,
                  avg_buy_price |-> RatDiv(total_cost, RatInt(total_shares)),
                  total_cost |-> total_cost,
                  stop_loss_price |-> stop_loss,
                  take_profit_price |-> take_profit,
                  first_bought_at |-> holding.first_bought_at]]
    ELSE [s \in DOMAIN hs \cup {symbol} |->
             IF s = symbol
             THEN [quantity |-> quantity,
                   avg_buy_price |-> RatInt(avg_price),
                   total_cost |-> RatInt(quantity * avg_price),
                   stop_loss_price |-> stop_loss,
                   take_profit_price |-> take_profit,
                   first_bought_at |-> now]
             ELSE hs[s]]

remove_holding(hs, symbol) == [s \in DOMAIN hs \ {symbol} |-> hs[s]]

\* Storage failures.  fault names the storage call that raises during this
\* call of execute_signal:
\*   "risk"     a read made by the risk re-check (get_holdings, get_state, the
\*              trade queries)
\*   "holding"  the write of the Holding row
\*   "trade"    add_trade
\*   "link"     after the Trade row is committed and before the signal is
\*              linked to it (log_action of record_buy/record_sell, or reading
\*              trade.id from the row returned out of its closed session)
\*   "audit"    log_action of _update_signal_status(EXECUTED), after the
\*              status is committed
Faults == {"none", "risk", "holding", "trade", "link", "audit"}

\* A ledger is [cash, holdings, trades]; record_buy and record_sell return it
\* with raised and the id of the Trade row.
Trade(symbol, action, quantity, price, signal_id, buy_price, profit_loss, day) ==
    [symbol |-> symbol, action |-> action, quantity |-> quantity, price |-> price,
     total_value |-> quantity * price, signal_id |-> signal_id,
     buy_price |-> buy_price, profit_loss |-> profit_loss, day |-> day]

record_buy(L, symbol, quantity, price, signal_id, day, fault) ==
    LET total_cost == quantity * price
        c1 == L.cash - total_cost
        stop_loss == Pct(price, stop_loss_pct)
        take_profit == Pct(price, take_profit_pct)
        h1 == update_or_create_holding(L.holdings, symbol, quantity, price,
                                       stop_loss, take_profit, day)
        t1 == Append(L.trades, Trade(symbol, "BUY", quantity, price, signal_id,
                                     RatInt(0), RatInt(0), day))
    IN  IF fault = "holding"
        THEN [cash |-> c1, holdings |-> L.holdings, trades |-> L.trades,
              raised |-> TRUE, trade_id |-> NoTrade]
        ELSE IF fault = "trade"
        THEN [cash |-> c1, holdings |-> h1, trades |-> L.trades,
              raised |-> TRUE, trade_id |-> NoTrade]
        ELSE [cash |-> c1, holdings |-> h1, trades |-> t1,
              raised |-> (fault = "link"), trade_id |-> Len(t1)]

\* record_sell that removes the holding only when quantity > holding.quantity
record_sell_over(L, symbol, quantity, price, signal_id, day, fault) ==
    LET held == symbol \in DOMAIN L.holdings
        buy_price == IF held THEN L.holdings[symbol].avg_buy_price ELSE RatInt(0)
        t1 == Append(L.trades,
                     Trade(symbol, "SELL", quantity, price, signal_id, buy_price,
                           RatMul(RatSub(RatInt(price), buy_price), RatInt(quantity)), day))
        h1 == IF ~held THEN L.holdings
              ELSE IF quantity > L.holdings[symbol].quantity
              THEN remove_holding(L.holdings, symbol)
              ELSE [L.holdings EXCEPT ![symbol] =
                       [@ EXCEPT !.quantity = @ - quantity,
                                 !.total_cost =
                                     RatMul(RatInt(L.holdings[symbol].quantity - quantity),
                                            L.holdings[symbol].avg_buy_price)]]
    IN  [cash |-> L.cash + quantity * price, holdings |-> h1, trades |-> t1,
         raised |-> FALSE, trade_id |-> Len(t1)]

\* record_sell whose partial sale leaves total_cost as it was
record_sell_cost(L, symbol, quantity, price, signal_id, day, fault) ==
    LET held == symbol \in DOMAIN L.holdings
        buy_price == IF held THEN L.holdings[symbol].avg_buy_price ELSE RatInt(0)
        t1 == Append(L.trades,
                     Trade(symbol, "SELL", quantity, price, signal_id, buy_price,
                           RatMul(RatSub(RatInt(price), buy_price), RatInt(quantity)), day))
        h1 == IF ~held THEN L.holdings
              ELSE IF quantity >= L.holdings[symbol].quantity
              THEN remove_holding(L.holdings, symbol)
              ELSE [L.holdings EXCEPT ![symbol] = [@ EXCEPT !.quantity = @ - quantity]]
    IN  [cash |-> L.cash + quantity * price, holdings |-> h1, trades |-> t1,
         raised |-> FALSE, trade_id |-> Len(t1)]

record_sell(L, symbol, quantity, price, signal_id, day, fault) ==
    LET total_proceeds == quantity * price
        c1 == L.cash + total_proceeds
        held == symbol \in DOMAIN L.holdings
        buy_price == IF held THEN L.holdings[symbol].avg_buy_price ELSE RatInt(0)
        profit_loss == RatMul(RatSub(RatInt(price), buy_price), RatInt(quantity))
        t1 == Append(L.trades, Trade(symbol, "SELL", quantity, price, signal_id,
                                     buy_price, profit_loss, day))
        h1 == IF ~held THEN L.holdings
              ELSE IF quantity >= L.holdings[symbol].quantity
              THEN remove_holding(L.holdings, symbol)
              ELSE [L.holdings EXCEPT ![symbol] =
                       [@ EXCEPT !.quantity = @ - quantity,
                                 !.total_cost =
                                     RatMul(RatInt(L.holdings[symbol].quantity - quantity),
                                            L.holdings[symbol].avg_buy_price)]]
    IN  IF fault = "trade"
        THEN [cash |-> c1, holdings |-> L.holdings, trades |-> L.trades,
              raised |-> TRUE, trade_id |-> NoTrade]
        ELSE IF fault = "holding" /\ held
        THEN [cash |-> c1, holdings |-> L.holdings, trades |-> t1,
              raised |-> TRUE, trade_id |-> NoTrade]
        ELSE [cash |-> c1, holdings |-> h1, trades |-> t1,
              raised |-> (fault = "link"), trade_id |-> Len(t1)]

----------------------------------------------------------------------------
(* Trade executor (executor/trade_executor.py) *)

\* The program state execute_signal reads and writes.
State(sg, c, hs, trs, p, li) ==
    [signals |-> sg, cash |-> c, holdings |-> hs, trades |-> trs,
     paused |-> p, logged_in |-> li]

Ledger(S) == [cash |-> S.cash, holdings |-> S.holdings, trades |-> S.trades]

Result(success, msg, reason, raised) ==
    [success |-> success, msg |-> msg, reason |-> reason, raised |-> raised]

\* _update_signal_status that writes the trade_id and forgets the status
update_signal_status_keep(sg, signal_id, status, trade_id) ==
    [sg EXCEPT ![signal_id] =
        [@ EXCEPT !.trade_id = IF trade_id # NoTrade THEN trade_id ELSE @]]

\* TradeExecutor._update_signal_status: writes the row whatever its status is
\* (trade_id only when one is passed).
update_signal_status(sg, signal_id, status, trade_id) ==
    [sg EXCEPT ![signal_id] =
        [@ EXCEPT !.status = status,
                  !.trade_id = IF trade_id # NoTrade THEN trade_id ELSE @]]

\* Steps shared by _execute_paper_trade and _execute_live_trade once a fill
\* price is known: record in the portfolio (rec is what record_buy or
\* record_sell did), link and mark EXECUTED, confirm; any exception marks the
\* signal CANCELLED.
finalize(S, s, fault, rec) ==
    LET S1 == [S EXCEPT !.cash = rec.cash, !.holdings = rec.holdings,
                        !.trades = rec.trades]
    IN  IF rec.raised
        THEN [st |-> [S1 EXCEPT !.signals =
                         update_signal_status(S1.signals, s, CANCELLED, NoTrade)],
              res |-> Result(FALSE, "exec_failed", "exception", FALSE)]
        ELSE IF fault = "audit"
        THEN [st |-> [S1 EXCEPT !.signals =
                         update_signal_status(
                             update_signal_status(S1.signals, s, EXECUTED, rec.trade_id),
                             s, CANCELLED, NoTrade)],
              res |-> Result(FALSE, "exec_failed", "exception", FALSE)]
        ELSE [st |-> [S1 EXCEPT !.signals =
                         update_signal_status(S1.signals, s, EXECUTED, rec.trade_id)],
              res |-> Result(TRUE, "executed", "ok", FALSE)]

record_and_finalize(S, s, fill_price, day, fault) ==
    LET sig == S.signals[s] IN
    finalize(S, s, fault,
             IF sig.action = "BUY"
             THEN record_buy(Ledger(S), sig.symbol, sig.quantity, fill_price, s, day, fault)
             ELSE record_sell(Ledger(S), sig.symbol, sig.quantity, fill_price, s, day, fault))

execute_paper_trade(S, s, day, env) ==
    record_and_finalize(S, s, S.signals[s].price, day, env.fault)

\* execute_live_trade that records an order it saw no fill for, at the
\* suggested price
execute_live_trade_unfilled(S, s, day, env) ==
    IF ~S.logged_in /\ ~env.venue.login
    THEN [st |-> S, res |-> Result(FALSE, "login_failed", "venue", FALSE)]
    ELSE IF ~env.venue.order
    THEN [st |-> [S EXCEPT !.logged_in = TRUE, !.signals =
                     update_signal_status(S.signals, s, CANCELLED, NoTrade)],
          res |-> Result(FALSE, "order_failed", "venue", FALSE)]
    ELSE record_and_finalize([S EXCEPT !.logged_in = TRUE], s,
                             IF env.venue.fill = NoPrice THEN S.signals[s].price
                             ELSE env.venue.fill, day, env.fault)

\* execute_live_trade that records a fill at the signal's suggested price
execute_live_trade_suggested(S, s, day, env) ==
    IF ~S.logged_in /\ ~env.venue.login
    THEN [st |-> S, res |-> Result(FALSE, "login_failed", "venue", FALSE)]
    ELSE IF ~env.venue.order
    THEN [st |-> [S EXCEPT !.logged_in = TRUE, !.signals =
                     update_signal_status(S.signals, s, CANCELLED, NoTrade)],
          res |-> Result(FALSE, "order_failed", "venue", FALSE)]
    ELSE IF env.venue.fill = NoPrice
    THEN [st |-> [S EXCEPT !.logged_in = TRUE, !.signals =
                     update_signal_status(S.signals, s, CANCELLED, NoTrade)],
          res |-> Result(FALSE, "not_filled", "venue", FALSE)]
    ELSE record_and_finalize([S EXCEPT !.logged_in = TRUE], s, S.signals[s].price,
                             day, env.fault)

\* env.venue scripts the venue: login() result, place_order result, and the
\* average fill price _wait_for_fill returns (NoPrice: cancelled, rejected,
\* timed out or filled without a price).
execute_live_trade(S, s, day, env) ==
    LET v == env.venue
        S1 == [S EXCEPT !.logged_in = S.logged_in \/ v.login]
    IN  IF ~S.logged_in /\ ~v.login
        THEN [st |-> S, res |-> Result(FALSE, "login_failed", "venue", FALSE)]
        ELSE IF ~v.order
        THEN [st |-> [S1 EXCEPT !.signals =
                         update_signal_status(S1.signals, s, CANCELLED, NoTrade)],
              res |-> Result(FALSE, "order_failed", "venue", FALSE)]
        ELSE IF v.fill = NoPrice
        THEN [st |-> [S1 EXCEPT !.signals =
                         update_signal_status(S1.signals, s, CANCELLED, NoTrade)],
              res |-> Result(FALSE, "not_filled", "venue", FALSE)]
        ELSE record_and_finalize(S1, s, v.fill, day, env.fault)

\* The risk re-check of execute_signal; portfolio_data has no 'peak_value'
\* key, so the default (total_value) is passed as the peak.
risk_recheck(S, s, day, portfolio_data, holdings_count) ==
    pre_trade_check(S.paused, S.trades, day, S.signals[s].action, S.signals[s].quantity,
                    S.signals[s].price, portfolio_data.cash_balance, holdings_count,
                    portfolio_data.total_value, portfolio_data.total_value)

\* dispatch that goes on to execute whatever the risk re-check answered
dispatch_unchecked(S, s, paper, day, env, risk) ==
    IF env.fault = "risk"
    THEN [st |-> S, res |-> Result(FALSE, "raised", "exception", TRUE)]
    ELSE IF paper
    THEN execute_paper_trade(S, s, day, env)
    ELSE execute_live_trade(S, s, day, env)

\* execute_signal after the risk re-check answered risk
dispatch(S, s, paper, day, env, risk) ==
    LET S1 == [S EXCEPT !.paused = risk.paused]
    IN  IF env.fault = "risk"
        THEN [st |-> S, res |-> Result(FALSE, "raised", "exception", TRUE)]
        ELSE IF ~risk.ok
        THEN [st |-> [S1 EXCEPT !.signals =
                         update_signal_status(S1.signals, s, CANCELLED, NoTrade)],
              res |-> Result(FALSE, "risk_failed", risk.reason, FALSE)]
        ELSE IF paper
        THEN execute_paper_trade(S1, s, day, env)
        ELSE execute_live_trade(S1, s, day, env)

\* execute_signal from the risk re-check on (the signal passed the
\* APPROVED test)
execute_checked(S, s, paper, day, env) ==
    dispatch(S, s, paper, day, env,
             risk_recheck(S, s, day,
                          get_portfolio_value(S.cash, S.holdings, env.quote),
                          get_holdings_count(S.holdings)))

\* execute_signal that also lets an EXECUTED signal through its status test
execute_signal_lax(S, s, seen, paper, day, env) ==
    IF seen \notin {APPROVED, EXECUTED}
    THEN [st |-> S, res |-> Result(FALSE, "not_approved", seen, FALSE)]
    ELSE execute_checked(S, s, paper, day, env)

\* seen is signal.status of the object passed in; the row is S.signals[s].
execute_signal(S, s, seen, paper, day, env) ==
    IF seen # APPROVED
    THEN [st |-> S, res |-> Result(FALSE, "not_approved", seen, FALSE)]
    ELSE execute_checked(S, s, paper, day, env)

\* TradeExecutor.execute_approved_signals: the rows that are APPROVED when it
\* is called, each loaded with that status and executed in turn, envs[s]
\* scripting the call for signal s.  An exception out of execute_signal ends
\* the loop.
RECURSIVE execute_each(_, _, _, _, _, _)
RECURSIVE execute_rest(_, _, _, _, _, _, _)
execute_rest(r, s, todo, paper, day, envs, results) ==
    IF r.res.raised
    THEN [st |-> r.st, results |-> results, raised |-> TRUE]
    ELSE execute_each(r.st, todo \ {s}, paper, day, envs, results @@ (s :> r.res))

first_of(todo) == CHOOSE x \in todo : \A y \in todo : x <= y

execute_each(S, todo, paper, day, envs, results) ==
    IF todo = {} THEN [st |-> S, results |-> results, raised |-> FALSE]
    ELSE execute_rest(execute_signal(S, first_of(todo), APPROVED, paper, day,
                                     envs[first_of(todo)]),
                      first_of(todo), todo, paper, day, envs, results)

execute_approved_signals(S, paper, day, envs) ==
    LET approved == {s \in DOMAIN S.signals : S.signals[s].status = APPROVED}
    IN  execute_each(S, approved, paper, day, envs, <<>>)

----------------------------------------------------------------------------
(* Approval coordinator (notifications/telegram_bot.py) *)

Responses == {"Y", "N", "M", "None"}

\* TelegramBot._update_signal_response and _update_signal_status: write the
\* status of the row whatever it was.
update_signal_response(sg, signal_id, status) ==
    [sg EXCEPT ![signal_id] = [@ EXCEPT !.status = status]]

\* ApprovalManager.request_approval: sent is the result of the send; reply is
\* the first recognized token polled before the timeout, "None" if there is none.
request_approval(sg, s, sent, reply) ==
    IF ~sent THEN [signals |-> sg, response |-> "None"]
    ELSE IF reply = "Y"
    THEN [signals |-> update_signal_response(sg, s, APPROVED), response |-> "Y"]
    ELSE IF reply = "N"
    THEN [signals |-> update_signal_response(sg, s, REJECTED), response |-> "N"]
    ELSE IF reply = "M"
    THEN [signals |-> sg, response |-> "M"]
    ELSE [signals |-> update_signal_response(sg, s, EXPIRED), response |-> "None"]

\* TradingBot._process_signal: seen is the status held by the Signal object
\* the generator returned, a what request_approval did and answered.
after_approval(S, s, seen, paper, day, env, a) ==
    IF a.response = "Y"
    THEN execute_signal([S EXCEPT !.signals = a.signals], s, seen, paper, day, env)
         @@ [response |-> a.response]
    ELSE [st |-> [S EXCEPT !.signals = a.signals],
          res |-> Result(FALSE, "no_execution", "response", FALSE),
          response |-> a.response]

process_signal(S, s, seen, paper, day, sent, reply, env) ==
    after_approval(S, s, seen, paper, day, env,
                   request_approval(S.signals, s, sent, reply))

----------------------------------------------------------------------------
(* The wait for a reply (TelegramBot.wait_for_response,
   TwilioSMS.wait_for_response) *)

\* A text is a sequence of one-character strings
Lower == <<"a", "b", "c", "d", "e", "f", "g", "h", "i", "j", "k", "l", "m",
           "n", "o", "p", "q", "r", "s", "t", "u", "v", "w", "x", "y", "z">>

Capital == <<"A", "B", "C", "D", "E", "F", "G", "H", "I", "J", "K", "L", "M",
             "N", "O", "P", "Q", "R", "S", "T", "U", "V", "W", "X", "Y", "Z">>

\* str.upper()
upper(text) ==
    [i \in 1..Len(text) |->
        IF \E k \in 1..Len(Lower) : Lower[k] = text[i]
        THEN Capital[CHOOSE k \in 1..Len(Lower) : Lower[k] = text[i]]
        ELSE text[i]]

\* str.strip()
RECURSIVE strip(_)
strip(text) ==
    IF text = <<>> THEN text
    ELSE IF Head(text) = " " THEN strip(Tail(text))
    ELSE IF text[Len(text)] = " " THEN strip(SubSeq(text, 1, Len(text) - 1))
    ELSE text

ApproveTokens == {<<"Y">>, <<"Y", "E", "S">>, <<"A", "P", "P", "R", "O", "V", "E">>}
RejectTokens == {<<"N">>, <<"N", "O">>, <<"R", "E", "J", "E", "C", "T">>}
ModifyTokens == {<<"M">>, <<"M", "O", "D">>, <<"M", "O", "D", "I", "F", "Y">>}

\* The configured counterpart (telegram.chat_id, the user's phone number)
chat_id == "user"

\* The body of the for loop of TelegramBot.wait_for_response on one update
telegram_token(message) ==
    LET text == upper(strip(message.text)) IN
    IF message.from # chat_id THEN "ignore"
    ELSE IF text \in ApproveTokens THEN "Y"
    ELSE IF text \in RejectTokens THEN "N"
    ELSE IF text \in ModifyTokens THEN "M"
    ELSE "ignore"

\* The body of the for loop of TwilioSMS.wait_for_response on one message
\* sent to the Twilio number
sms_token(message) ==
    LET body == upper(strip(message.text)) IN
    IF body \in ApproveTokens THEN "Y"
    ELSE IF body \in RejectTokens THEN "N"
    ELSE IF body # <<>> /\ Head(body) = "M" THEN "M"
    ELSE "ignore"

token_of(channel, message) ==
    IF channel = "telegram" THEN telegram_token(message) ELSE sms_token(message)

\* The polling loop over the messages that arrive after the wait started, in
\* arrival order: the first message the loop answers to before
\* approval_timeout_minutes have passed (i = 0, token "None": none)
RECURSIVE wait_for_response(_, _, _)
wait_for_response(channel, inbox, i) ==
    IF i > Len(inbox) \/ inbox[i].at >= approval_timeout_minutes
    THEN [token |-> "None", i |-> 0, polls |-> i]
    ELSE IF token_of(channel, inbox[i]) # "ignore"
    THEN [token |-> token_of(channel, inbox[i]), i |-> i, polls |-> i]
    ELSE wait_for_response(channel, inbox, i + 1)

\* channel_ops that sends the message again before every poll
channel_ops_resend(sent, polls) ==
    IF sent
    THEN [k \in 1..(2 * polls) |-> IF k % 2 = 1 THEN "send" ELSE "poll"]
    ELSE <<"send">>

\* The calls request_approval makes on the channel, in order: one send, and
\* after a successful send the polls of wait_for_response
channel_ops(sent, polls) ==
    IF sent THEN <<"send">> \o [k \in 1..polls |-> "poll"] ELSE <<"send">>

----------------------------------------------------------------------------
(* Inputs *)

\* What _get_current_price returns during one call: no price, or a quote
Quotes == {[sym \in Symbols |-> q] : q \in {NoPrice, QuotedPrice}}

NoQuote == [sym \in Symbols |-> NoPrice]

\* _get_current_price is asked only for the symbols held
QuotesAsked(syms) == IF syms = {} THEN {NoQuote} ELSE Quotes

PaperVenue == [login |-> FALSE, order |-> FALSE, fill |-> NoPrice]

Fills == {[login |-> TRUE, order |-> TRUE, fill |-> f] : f \in FillPrices}

Venues ==
    {[login |-> FALSE, order |-> FALSE, fill |-> NoPrice],
     [login |-> TRUE, order |-> FALSE, fill |-> NoPrice],
     [login |-> TRUE, order |-> TRUE, fill |-> NoPrice]} \cup Fills

Env(f, q, v) == [fault |-> f, quote |-> q, venue |-> v]

\* The script of a call that returns before it asks anything
IdleEnv == Env("none", NoQuote, PaperVenue)

\* The scripts of one call of execute_signal that passes the status test,
\* syms being the symbols it may ask a price for: a storage failure needs the
\* call to reach the storage call that fails.
Envs(paper, canFault, syms) ==
    LET vs == IF paper THEN {PaperVenue} ELSE Venues
        fs == IF paper THEN {PaperVenue} ELSE Fills
        qs == QuotesAsked(syms)
    IN  {Env("none", q, v) : q \in qs, v \in vs}
        \cup (IF canFault
              THEN {Env("risk", q, PaperVenue) : q \in qs}
                   \cup {Env(f, q, v) : f \in Faults \ {"none", "risk"},
                                        q \in qs, v \in fs}
              ELSE {})

\* expires_at is in minutes after the signal was created
Row(symbol, action, quantity) ==
    [symbol |-> symbol, action |-> action, price |-> SuggestedPrice,
     quantity |-> quantity, status |-> PENDING, trade_id |-> NoTrade,
     expires_at |-> approval_timeout_minutes]

\* The stop-loss SELL signal of an emergency, with its short timeout
UrgentRow(symbol, quantity) ==
    [Row(symbol, "SELL", quantity) EXCEPT !.expires_at = urgent_timeout_minutes]

\* The signals the generators produce
SignalRows == {Row("X", "BUY", 2), Row("X", "SELL", 2), Row("Y", "BUY", 3)}

NoCall == [op |-> "none", sig |-> 0, success |-> FALSE,
           msg |-> "none", reason |-> "none", raised |-> FALSE, response |-> "none"]

Call(op, s, res, response) ==
    [op |-> op, sig |-> s, success |-> res.success, msg |-> res.msg,
     reason |-> res.reason, raised |-> res.raised, response |-> response]

----------------------------------------------------------------------------
(* State machine *)

NoSnapshot == RatInt(0)

\* The jobs of start_scheduler that process signals
ScanJobs == {"main_scan", "open_scan"}

Jobs == ScanJobs \cup {"stop_loss_check"}

\* A job's thread: not running, in the job's body between signals, or inside
\* request_approval for signal sig since minute since
Idle == [phase |-> "idle", sig |-> 0, since |-> 0]

Scanning == [phase |-> "scanning", sig |-> 0, since |-> 0]

Waiting(s, m) == [phase |-> "waiting", sig |-> s, since |-> m]

\* The clock in minutes after 9:00, five minutes before the market opens
FirstMinute == 25

NotStarted == [minute |-> FirstMinute, running |-> [j \in Jobs |-> Idle]]

\* No wait_for_response and no _wait_for_fill in progress
NoWait == [kind |-> "none", sig |-> 0, pc |-> "idle", elapsed |-> 0, order |-> "none",
           result |-> "none"]

\* No update has arrived and no wait is in progress: updates are the Bot API's
\* queue in arrival order (update_id = position), confirmed the highest
\* update_id the server has dropped, last_update_id the bot's offset, sig and
\* pc the wait in progress, asked the signals whose request was sent
NoChannel ==
    [updates |-> <<>>, confirmed |-> 0, last_update_id |-> 0, sig |-> 0, pc |-> "idle",
     asked |-> {}]

TypeOK ==
    /\ signals \in [Sigs -> [symbol : Symbols, action : Actions, price : {SuggestedPrice},
                             quantity : Quantities, status : SignalStatus,
                             trade_id : 0..MaxTrades,
                             expires_at : {approval_timeout_minutes,
                                           urgent_timeout_minutes}]]
    /\ obj \in [Sigs -> SignalStatus]
    /\ cash \in Int
    /\ DOMAIN holdings \subseteq Symbols
    /\ Len(trades) <= MaxTrades
    /\ paused \in BOOLEAN
    /\ logged_in \in BOOLEAN
    /\ is_paper \in BOOLEAN
    /\ today \in 0..MaxDay
    /\ faults \in 0..MaxFaults

\* After construction: the generators have stored their signals as PENDING
\* and hold the objects they created (nothing is held, so the first signal is
\* a BUY); cash is the configured budget; the pause flag is what the
\* trading_state table kept from the previous run.
Init ==
    /\ signals \in {f \in [Sigs -> SignalRows] : f[1].action = "BUY"}
    /\ obj = [s \in Sigs |-> PENDING]
    /\ cash = initial_budget
    /\ holdings = <<>>
    /\ trades = <<>>
    /\ paused \in BOOLEAN
    /\ logged_in = FALSE
    /\ is_paper \in BOOLEAN
    /\ today = 0
    /\ faults = 0
    /\ snapshot_peak = NoSnapshot
    /\ scheduler = NotStarted
    /\ wait = NoWait
    /\ telegram = NoChannel
    /\ last = NoCall

Cur == State(signals, cash, holdings, trades, paused, logged_in)

Install(S) ==
    /\ signals' = S.signals
    /\ cash' = S.cash
    /\ holdings' = S.holdings
    /\ trades' = S.trades
    /\ paused' = S.paused
    /\ logged_in' = S.logged_in

Fired(env) == IF env.fault = "none" THEN 0 ELSE 1

\* The call op on signal s returned r = [st, res]: its writes and its result
Return(op, s, r, response) ==
    /\ Install(r.st)
    /\ last' = Call(op, s, r.res, response)

\* execute_signal returned r; value is the total_value its
\* get_portfolio_value() call reads, venue what the venue answers
ReturnExecuted(s, r, value, venue) ==
    /\ Install(r.st)
    /\ last' = [value |-> value, venue |-> venue]
                @@ Call("execute_signal", s, r.res, "none")

\* executor.execute_signal(signal) with the object the caller holds
ExecuteSignal(s) ==
    /\ Len(trades) < MaxTrades
    /\ \E env \in (IF obj[s] = APPROVED
                   THEN Envs(is_paper, faults < MaxFaults, DOMAIN holdings)
                   ELSE {IdleEnv}) :
          /\ ReturnExecuted(s, execute_signal(Cur, s, obj[s], is_paper, today, env),
                            get_portfolio_value(cash, holdings, env.quote).total_value,
                            env.venue)
          /\ faults' = faults + Fired(env)
    /\ UNCHANGED <<obj, is_paper, today, snapshot_peak, scheduler, wait, telegram>>

FiredIn(envs) == Cardinality({s \in DOMAIN envs : envs[s].fault # "none"})

\* execute_approved_signals ended: results holds the signals whose result
\* was appended to the list (the list is returned unless the call raised)
ReturnBatch(r) ==
    /\ Install(r.st)
    /\ last' = [results |-> DOMAIN r.results]
                @@ [NoCall EXCEPT !.op = "execute_approved_signals", !.raised = r.raised]

\* executor.execute_approved_signals()
ExecuteApprovedSignals ==
    /\ Len(trades) + Cardinality({s \in Sigs : signals[s].status = APPROVED}) <= MaxTrades
    /\ \E envs \in [{s \in Sigs : signals[s].status = APPROVED}
                      -> Envs(is_paper, faults < MaxFaults,
                              DOMAIN holdings
                              \cup {signals[s].symbol : s \in {t \in Sigs :
                                        /\ signals[t].status = APPROVED
                                        /\ signals[t].action = "BUY"}})] :
          /\ FiredIn(envs) <= MaxFaults - faults
          /\ ReturnBatch(execute_approved_signals(Cur, is_paper, today, envs))
          /\ faults' = faults + FiredIn(envs)
    /\ UNCHANGED <<obj, is_paper, today, snapshot_peak, scheduler, wait, telegram>>

\* approval.request_approval(signal), on a signal that is awaiting approval
\* (process_pending_signals and _process_signal pass pending signals)
RequestApproval(s) ==
    /\ signals[s].status = PENDING
    /\ \E sent \in BOOLEAN, reply \in Responses :
          LET a == request_approval(signals, s, sent, reply) IN
          /\ signals' = a.signals
          /\ last' = [NoCall EXCEPT !.op = "request_approval", !.sig = s,
                                    !.response = a.response]
    /\ UNCHANGED <<obj, cash, holdings, trades, paused, logged_in, is_paper, today, faults,
                   snapshot_peak, scheduler, wait, telegram>>

ReturnProcessed(s, r) == Return("process_signal", s, r, r.response)

\* bot._process_signal(signal) on a signal fresh from its generator
ProcessSignal(s) ==
    /\ signals[s].status = PENDING
    /\ obj[s] = PENDING
    /\ Len(trades) < MaxTrades
    /\ \E sent \in BOOLEAN, reply \in Responses :
       \E env \in (IF sent /\ reply = "Y" /\ obj[s] = APPROVED
                   THEN Envs(is_paper, faults < MaxFaults, DOMAIN holdings)
                   ELSE {IdleEnv}) :
          /\ ReturnProcessed(s, process_signal(Cur, s, obj[s], is_paper, today,
                                               sent, reply, env))
          /\ faults' = faults + Fired(env)
    /\ UNCHANGED <<obj, is_paper, today, snapshot_peak, scheduler, wait, telegram>>

\* A caller reads the signal back from the store (session.query(Signal))
LoadSignal(s) ==
    /\ obj[s] # signals[s].status
    /\ obj' = [obj EXCEPT ![s] = signals[s].status]
    /\ last' = [NoCall EXCEPT !.op = "load_signal", !.sig = s]
    /\ UNCHANGED <<signals, cash, holdings, trades, paused, logged_in, is_paper, today, faults,
                   snapshot_peak, scheduler, wait, telegram>>

\* risk.resume_trading()
ResumeTrading ==
    /\ paused' = FALSE
    /\ last' = [NoCall EXCEPT !.op = "resume_trading"]
    /\ UNCHANGED <<signals, obj, cash, holdings, trades, logged_in, is_paper, today, faults,
                   snapshot_peak, scheduler, wait, telegram>>

\* midnight passes (utcnow() moves to the next calendar day)
NextDay ==
    /\ today < MaxDay
    /\ today' = today + 1
    /\ last' = [NoCall EXCEPT !.op = "next_day"]
    /\ UNCHANGED <<signals, obj, cash, holdings, trades, paused, logged_in, is_paper, faults,
                   snapshot_peak, scheduler, wait, telegram>>

Next ==
    \/ \E s \in Sigs : ExecuteSignal(s)
    \/ ExecuteApprovedSignals
    \/ \E s \in Sigs : RequestApproval(s)
    \/ \E s \in Sigs : ProcessSignal(s)
    \/ \E s \in Sigs : LoadSignal(s)
    \/ ResumeTrading

\* The pipeline within one calendar day
Spec == Init /\ [][Next]_vars

----------------------------------------------------------------------------
(* The risk engine on its own: pre_trade_check applied to inputs drawn from   *)
(* bounded sets, over a stored pause flag and trade history.                  *)

HistTrades ==
    {Trade("X", a, 2, SuggestedPrice, 0, RatInt(0), RatInt(0), d) :
        a \in Actions, d \in 0..MaxDay}

\* Trade histories: rows are inserted in time order
Histories ==
    {h \in UNION {[1..n -> HistTrades] : n \in 0..MaxHist} :
        \A i \in 1..(Len(h) - 1) : h[i].day <= h[i + 1].day}

RiskArgs ==
    [action : Actions, quantity : Quantities, price : {SuggestedPrice},
     available_cash : {100, initial_budget}, current_holdings : {0, max_holdings},
     portfolio_value : {850, 1000}, peak_value : {0, 1000, 1200}]

InitRisk ==
    /\ signals = [s \in Sigs |-> Row("X", "BUY", 2)]
    /\ obj = [s \in Sigs |-> PENDING]
    /\ cash = initial_budget
    /\ holdings = <<>>
    /\ today \in 0..MaxDay
    /\ trades \in {h \in Histories : \A i \in 1..Len(h) : h[i].day <= today}
    /\ paused \in BOOLEAN
    /\ logged_in = FALSE
    /\ is_paper = TRUE
    /\ faults = 0
    /\ snapshot_peak = NoSnapshot
    /\ scheduler = NotStarted
    /\ wait = NoWait
    /\ telegram = NoChannel
    /\ last = NoCall

\* risk.pre_trade_check(action, symbol, quantity, price, available_cash,
\*                      current_holdings, portfolio_value, peak_value)
PreTradeCheck ==
    /\ \E a \in RiskArgs :
          LET r == pre_trade_check(paused, trades, today, a.action, a.quantity, a.price,
                                   a.available_cash, a.current_holdings,
                                   RatInt(a.portfolio_value), RatInt(a.peak_value))
          IN  /\ paused' = r.paused
              /\ last' = [op |-> "pre_trade_check", args |-> a, ok |-> r.ok,
                          reason |-> r.reason]
    /\ UNCHANGED <<signals, obj, cash, holdings, trades, logged_in, is_paper, today, faults,
                   snapshot_peak, scheduler, wait, telegram>>

NextRisk ==
    \/ PreTradeCheck
    \/ ResumeTrading
    \/ NextDay

SpecRisk == InitRisk /\ [][NextRisk]_vars

\* The snapshot row take_snapshot adds when the portfolio is worth total
\* and the latest row's peak is prev (NoSnapshot: no row, or a peak of 0)
\* take_snapshot that stores the current value as the peak
snapshot_peak_value_current(total, prev) == total

snapshot_peak_value(total, prev) ==
    IF prev # NoSnapshot /\ RatLt(total, prev) THEN prev ELSE total

\* drawdown = portfolio['total_value'] - peak_value
snapshot_drawdown(total, peak) == RatSub(total, peak)

\* The PortfolioSnapshot row take_snapshot adds for a portfolio worth total
AddSnapshot(total) ==
    /\ snapshot_peak' = snapshot_peak_value(total, snapshot_peak)
    /\ last' = [total_value |-> total,
                peak_value |-> snapshot_peak_value(total, snapshot_peak),
                drawdown |-> snapshot_drawdown(total,
                                               snapshot_peak_value(total, snapshot_peak))]
                @@ [NoCall EXCEPT !.op = "take_snapshot"]

\* portfolio.take_snapshot()
TakeSnapshot ==
    /\ \E quote \in QuotesAsked(DOMAIN holdings) :
          AddSnapshot(get_portfolio_value(cash, holdings, quote).total_value)
    /\ UNCHANGED <<signals, obj, cash, holdings, trades, paused, logged_in, is_paper, today,
                   faults, scheduler, wait, telegram>>

\* The pipeline with the snapshots the scan and the daily report take
NextSnap ==
    \/ \E s \in Sigs : ExecuteSignal(s)
    \/ \E s \in Sigs : RequestApproval(s)
    \/ \E s \in Sigs : LoadSignal(s)
    \/ TakeSnapshot

\* A paper-trading run that starts with the pause flag clear
InitSnap == Init /\ is_paper /\ ~paused

SpecSnap == InitSnap /\ [][NextSnap]_vars

\* The ledger an earlier run left in the database after buying 2 shares of
\* each symbol of syms at the suggested price on day 0
RECURSIVE earlier_run(_)
earlier_run(syms) ==
    IF syms = {}
    THEN [cash |-> initial_budget, holdings |-> <<>>, trades |-> <<>>]
    ELSE LET sym == CHOOSE x \in syms : TRUE
         IN  record_buy(earlier_run(syms \ {sym}), sym, 2, SuggestedPrice, 0, 0, "none")

\* The BUY signals the generator produces, one symbol each
BuyRows == {Row(sym, "BUY", 2) : sym \in Symbols}

\* A paper-trading restart on the next day over the database of an earlier
\* run: holdings and trades are the stored rows (at most max_holdings
\* holdings), cash is the configured budget again.
InitHold ==
    /\ signals \in [Sigs -> BuyRows]
    /\ obj = [s \in Sigs |-> PENDING]
    /\ cash = initial_budget
    /\ \E syms \in {y \in SUBSET Symbols : Cardinality(y) <= max_holdings} :
          /\ holdings = earlier_run(syms).holdings
          /\ trades = earlier_run(syms).trades
    /\ paused = FALSE
    /\ logged_in = FALSE
    /\ is_paper = TRUE
    /\ today = MaxDay
    /\ faults = 0
    /\ snapshot_peak = NoSnapshot
    /\ scheduler = NotStarted
    /\ wait = NoWait
    /\ telegram = NoChannel
    /\ last = NoCall

NextHold ==
    \/ \E s \in Sigs : ExecuteSignal(s)
    \/ \E s \in Sigs : RequestApproval(s)
    \/ \E s \in Sigs : LoadSignal(s)

SpecHold == InitHold /\ [][NextHold]_vars

\* The ledger later in a run that bought 7 shares of Y at 100 in three orders
\* on day 0: cash 300, one holding
EarlierPrice == 100

earlier_orders ==
    record_buy(record_buy(record_buy(earlier_run({}), "Y", 3, EarlierPrice, 0, 0, "none"),
                          "Y", 2, EarlierPrice, 0, 0, "none"),
               "Y", 2, EarlierPrice, 0, 0, "none")

\* The run goes on the next day, in paper or in live mode, with fresh signals
InitCash ==
    /\ signals \in [Sigs -> SignalRows]
    /\ obj = [s \in Sigs |-> PENDING]
    /\ cash = earlier_orders.cash
    /\ holdings = earlier_orders.holdings
    /\ trades = earlier_orders.trades
    /\ paused = FALSE
    /\ logged_in = FALSE
    /\ is_paper \in BOOLEAN
    /\ today = MaxDay
    /\ faults = 0
    /\ snapshot_peak = NoSnapshot
    /\ scheduler = NotStarted
    /\ wait = NoWait
    /\ telegram = NoChannel
    /\ last = NoCall

SpecCash == InitCash /\ [][NextHold]_vars

\* The SELL signals generated for one holding of 2 shares of X: the scan's
\* and the stop-loss monitor's urgent one
SellRows == {Row("X", "SELL", 2), UrgentRow("X", 2)}

\* A run on the day after it bought X, with the SELL signals for the holding
\* stored as PENDING
InitSell ==
    /\ signals \in [Sigs -> SellRows]
    /\ obj = [s \in Sigs |-> PENDING]
    /\ cash = earlier_run({"X"}).cash
    /\ holdings = earlier_run({"X"}).holdings
    /\ trades = earlier_run({"X"}).trades
    /\ paused = FALSE
    /\ logged_in = FALSE
    /\ is_paper \in BOOLEAN
    /\ today = MaxDay
    /\ faults = 0
    /\ snapshot_peak = NoSnapshot
    /\ scheduler = NotStarted
    /\ wait = NoWait
    /\ telegram = NoChannel
    /\ last = NoCall

SpecSell == InitSell /\ [][NextHold]_vars

\* Inbound messages
Senders == {chat_id, "other"}

Texts == {<<" ", "y", "e", "s", " ">>, <<"N", "o">>, <<"m", "o", "d">>,
          <<"m", "a", "y", "b", "e">>}

\* Minutes after the wait started at which a message arrives
ReplyTimes == {3, 10, 20}

Messages == [text : Texts, from : Senders, at : ReplyTimes]

\* What arrives after the wait started, in arrival order
Inboxes ==
    {inbox \in UNION {[1..n -> Messages] : n \in 0..MaxInbox} :
        \A i \in 1..(Len(inbox) - 1) : inbox[i].at < inbox[i + 1].at}

NoMessage == [text |-> <<>>, from |-> "none", at |-> 0]

\* request_approval over channel answered: r is what the wait found, by the
\* message that ended it
Answered(channel, s, sent, inbox, r, a) ==
    /\ signals' = a.signals
    /\ last' = [op |-> "request_approval", channel |-> channel, sig |-> s, sent |-> sent,
                by |-> IF r.i = 0 THEN NoMessage ELSE inbox[r.i],
                response |-> a.response, ops |-> channel_ops(sent, r.polls)]

\* request_approval over channel: the send succeeds or not, and inbox arrives
RequestApprovalOver(channel, s) ==
    \E sent \in BOOLEAN :
    \E inbox \in (IF sent THEN Inboxes ELSE {<<>>}) :
       Answered(channel, s, sent, inbox, wait_for_response(channel, inbox, 1),
                request_approval(signals, s, sent,
                                 wait_for_response(channel, inbox, 1).token))

\* notifications.telegram_bot.ApprovalManager.request_approval(signal)
TelegramRequestApproval(s) ==
    /\ RequestApprovalOver("telegram", s)
    /\ UNCHANGED <<obj, cash, holdings, trades, paused, logged_in, is_paper, today, faults,
                   snapshot_peak, scheduler, wait, telegram>>

\* notifications.twilio_sms.ApprovalManager.request_approval(signal)
SmsRequestApproval(s) ==
    /\ RequestApprovalOver("sms", s)
    /\ UNCHANGED <<obj, cash, holdings, trades, paused, logged_in, is_paper, today, faults,
                   snapshot_peak, scheduler, wait, telegram>>

\* Signals awaiting approval: an ordinary BUY, the others urgent stop-loss
\* SELLs
InitApproval ==
    /\ signals = [s \in Sigs |-> IF s = 1 THEN Row("X", "BUY", 2) ELSE UrgentRow("X", 2)]
    /\ obj = [s \in Sigs |-> PENDING]
    /\ cash = initial_budget
    /\ holdings = <<>>
    /\ trades = <<>>
    /\ paused = FALSE
    /\ logged_in = FALSE
    /\ is_paper = TRUE
    /\ today = 0
    /\ faults = 0
    /\ snapshot_peak = NoSnapshot
    /\ scheduler = NotStarted
    /\ wait = NoWait
    /\ telegram = NoChannel
    /\ last = NoCall

NextApproval ==
    \/ \E s \in Sigs : TelegramRequestApproval(s)
    \/ \E s \in Sigs : SmsRequestApproval(s)

SpecApproval == InitApproval /\ [][NextApproval]_vars

\* The ledger on its own: record_buy and record_sell called with drawn
\* arguments
LedgerSymbols == {"X", "Y"}
LedgerQuantities == {5, 10}
LedgerPrices == {10, 20}
LedgerFaults == {"none", "holding", "trade", "link"}

\* What a ledger call may meet: a storage failure while the budget lasts
FaultsLeft == IF faults < MaxFaults THEN LedgerFaults ELSE {"none"}

\* record_buy / record_sell ended with ledger rec
Recorded(op, symbol, quantity, price, fault, rec) ==
    /\ cash' = rec.cash
    /\ holdings' = rec.holdings
    /\ trades' = rec.trades
    /\ faults' = faults + (IF fault = "none" THEN 0 ELSE 1)
    /\ last' = [op |-> op, symbol |-> symbol, quantity |-> quantity, price |-> price,
                raised |-> rec.raised]

\* portfolio.record_buy(symbol, quantity, price)
RecordBuy ==
    /\ Len(trades) < MaxLedgerOps
    /\ \E symbol \in LedgerSymbols, quantity \in LedgerQuantities, price \in LedgerPrices,
          fault \in FaultsLeft :
          Recorded("record_buy", symbol, quantity, price, fault,
                   record_buy(Ledger(Cur), symbol, quantity, price, 0, today, fault))
    /\ UNCHANGED <<signals, obj, paused, logged_in, is_paper, today, snapshot_peak, scheduler, wait, telegram>>

\* portfolio.record_sell(symbol, quantity, price)
RecordSell ==
    /\ Len(trades) < MaxLedgerOps
    /\ \E symbol \in LedgerSymbols, quantity \in LedgerQuantities, price \in LedgerPrices,
          fault \in FaultsLeft :
          Recorded("record_sell", symbol, quantity, price, fault,
                   record_sell(Ledger(Cur), symbol, quantity, price, 0, today, fault))
    /\ UNCHANGED <<signals, obj, paused, logged_in, is_paper, today, snapshot_peak, scheduler, wait, telegram>>

InitLedger ==
    /\ signals = [s \in Sigs |-> Row("X", "BUY", 2)]
    /\ obj = [s \in Sigs |-> PENDING]
    /\ cash = initial_budget
    /\ holdings = <<>>
    /\ trades = <<>>
    /\ paused = FALSE
    /\ logged_in = FALSE
    /\ is_paper = TRUE
    /\ today = 0
    /\ faults = 0
    /\ snapshot_peak = NoSnapshot
    /\ scheduler = NotStarted
    /\ wait = NoWait
    /\ telegram = NoChannel
    /\ last = NoCall

NextLedger ==
    \/ RecordBuy
    \/ RecordSell

SpecLedger == InitLedger /\ [][NextLedger]_vars

\* The scheduler: BlockingScheduler runs each due job on a thread of its
\* executor's pool, one instance of a job at a time, so the threads of
\* different jobs interleave.
market_open_minute == 30

scan_interval == 15

open_scan_minute == 35

stop_loss_interval == 5

\* CronTrigger of each job, within the hour
due(job, m) ==
    IF job = "main_scan" THEN m % scan_interval = 0
    ELSE IF job = "open_scan" THEN m = open_scan_minute
    ELSE m % stop_loss_interval = 0

is_market_hours(m) == m >= market_open_minute

\* The job's body up to its first signal: both return outside market hours,
\* scan_for_opportunities also when trading is paused
enters(job, m) == is_market_hours(m) /\ (job \in ScanJobs => ~paused)

\* The scheduler wakes at the next five-minute mark and submits every due job
\* that has no instance running
Wakeup ==
    /\ scheduler.minute < MaxMinute
    /\ \A j \in Jobs :
          scheduler.running[j].phase = "waiting"
             => scheduler.minute + stop_loss_interval - scheduler.running[j].since
                   <= approval_timeout_minutes
    /\ scheduler' =
          [minute |-> scheduler.minute + stop_loss_interval,
           running |->
              [j \in Jobs |->
                  IF /\ due(j, scheduler.minute + stop_loss_interval)
                     /\ scheduler.running[j].phase = "idle"
                     /\ enters(j, scheduler.minute + stop_loss_interval)
                  THEN Scanning
                  ELSE scheduler.running[j]]]
    /\ last' = [NoCall EXCEPT !.op = "wakeup"]
    /\ UNCHANGED <<signals, obj, cash, holdings, trades, paused, logged_in, is_paper, today,
                   faults, snapshot_peak, wait, telegram>>

\* The thread of job enters _process_signal(signal) for a signal its
\* generator returned: request_approval sends the request and starts to wait
\* (a failed send returns at once)
JobRequest(job, s) ==
    /\ scheduler.running[job].phase = "scanning"
    /\ signals[s].status = PENDING
    /\ obj[s] = PENDING
    /\ \A k \in Jobs : scheduler.running[k].sig # s
    /\ job = "stop_loss_check" <=> signals[s].expires_at = urgent_timeout_minutes
    /\ \E sent \in BOOLEAN :
          /\ scheduler' = [scheduler EXCEPT !.running[job] =
                              IF sent THEN Waiting(s, scheduler.minute) ELSE Scanning]
          /\ last' = [NoCall EXCEPT !.op = "send_trade_approval_request", !.sig = s,
                                    !.success = sent]
    /\ UNCHANGED <<signals, obj, cash, holdings, trades, paused, logged_in, is_paper, today,
                   faults, snapshot_peak, wait, telegram>>

\* wait_for_response returns to the thread of job, with a reply or, once the
\* timeout has passed, with none; the rest of _process_signal follows
JobAnswer(job) ==
    /\ scheduler.running[job].phase = "waiting"
    /\ \E reply \in Responses :
          /\ reply = "None" =>
                scheduler.minute - scheduler.running[job].since >= approval_timeout_minutes
          /\ ReturnProcessed(scheduler.running[job].sig,
                             process_signal(Cur, scheduler.running[job].sig,
                                            obj[scheduler.running[job].sig], is_paper,
                                            today, TRUE, reply, IdleEnv))
    /\ scheduler' = [scheduler EXCEPT !.running[job] = Scanning]
    /\ UNCHANGED <<obj, is_paper, today, faults, snapshot_peak, wait, telegram>>

\* scan_for_opportunities has no signal left: it takes the snapshot and returns
ScanDone(job) ==
    /\ job \in ScanJobs
    /\ scheduler.running[job].phase = "scanning"
    /\ \E quote \in QuotesAsked(DOMAIN holdings) :
          AddSnapshot(get_portfolio_value(cash, holdings, quote).total_value)
    /\ scheduler' = [scheduler EXCEPT !.running[job] = Idle]
    /\ UNCHANGED <<signals, obj, cash, holdings, trades, paused, logged_in, is_paper, today,
                   faults, wait, telegram>>

\* check_stop_loss_quick has no signal left and returns
StopLossDone ==
    /\ scheduler.running["stop_loss_check"].phase = "scanning"
    /\ scheduler' = [scheduler EXCEPT !.running["stop_loss_check"] = Idle]
    /\ last' = [NoCall EXCEPT !.op = "check_stop_loss_quick"]
    /\ UNCHANGED <<signals, obj, cash, holdings, trades, paused, logged_in, is_paper, today,
                   faults, snapshot_peak, wait, telegram>>

\* A paper-trading restart over the database of an earlier run that bought
\* X: the scans produce ordinary signals, check_stop_losses the urgent SELL of
\* the holding
InitSched ==
    /\ signals \in [Sigs -> SignalRows \cup {UrgentRow("X", 2)}]
    /\ obj = [s \in Sigs |-> PENDING]
    /\ cash = initial_budget
    /\ holdings = earlier_run({"X"}).holdings
    /\ trades = earlier_run({"X"}).trades
    /\ paused = FALSE
    /\ logged_in = FALSE
    /\ is_paper = TRUE
    /\ today = MaxDay
    /\ faults = 0
    /\ snapshot_peak = NoSnapshot
    /\ scheduler = NotStarted
    /\ wait = NoWait
    /\ telegram = NoChannel
    /\ last = NoCall

NextSched ==
    \/ Wakeup
    \/ \E j \in Jobs, s \in Sigs : JobRequest(j, s)
    \/ \E j \in Jobs : JobAnswer(j)
    \/ \E j \in ScanJobs : ScanDone(j)
    \/ StopLossDone

SpecSched == InitSched /\ [][NextSched]_vars

\* The two polling loops, one test or one body at a time, against a clock in
\* seconds: TelegramBot.wait_for_response and TradeExecutor._wait_for_fill
check_interval == 5

fill_check_interval == 2

fill_timeout_seconds == 60

approval_timeout_seconds == approval_timeout_minutes * 60

\* How long one getUpdates long poll and one get_order_status call take
PollSeconds == {0, check_interval}

StatusSeconds == {0, 1}

\* The states of an order at the venue; FilledNoPrice is a Filled order whose
\* record carries no average fill price
OrderStatus == {"Working", "Filled", "FilledNoPrice", "Cancelled", "Rejected"}

\* time.sleep(interval) that returns at once
after_sleep_none(elapsed, interval) == elapsed

\* time.sleep(interval)
after_sleep(elapsed, interval) == elapsed + interval

\* The loop conditions: now - start_time < timeout
approval_expired(elapsed) == elapsed >= approval_timeout_seconds

fill_expired(elapsed) == elapsed >= fill_timeout_seconds

Polling == wait.pc \in {"test", "body"}

\* The wait returns result at time elapsed
Returned(result, elapsed) ==
    [wait EXCEPT !.pc = "returned", !.result = result, !.elapsed = elapsed]

\* request_approval(signal) has sent its request and enters wait_for_response
StartApprovalWait(s) ==
    /\ ~Polling
    /\ signals[s].status = PENDING
    /\ wait' = [kind |-> "approval", sig |-> s, pc |-> "test", elapsed |-> 0,
                order |-> "none", result |-> "none"]
    /\ last' = [NoCall EXCEPT !.op = "send_trade_approval_request", !.sig = s]
    /\ UNCHANGED <<signals, obj, cash, holdings, trades, paused, logged_in, is_paper, today,
                   faults, snapshot_peak, scheduler, telegram>>

\* wait_for_response ends with reply ("None": the timeout)
ApprovalReturns(reply, elapsed) ==
    /\ signals' = request_approval(signals, wait.sig, TRUE, reply).signals
    /\ wait' = Returned(reply, elapsed)
    /\ last' = [NoCall EXCEPT !.op = "wait_for_response", !.sig = wait.sig,
                              !.response = reply]

\* while datetime.utcnow() - start_time < timeout_delta
ApprovalLoopTest ==
    /\ wait.kind = "approval"
    /\ wait.pc = "test"
    /\ IF approval_expired(wait.elapsed)
       THEN ApprovalReturns("None", wait.elapsed)
       ELSE /\ wait' = [wait EXCEPT !.pc = "body"]
            /\ UNCHANGED <<signals, last>>
    /\ UNCHANGED <<obj, cash, holdings, trades, paused, logged_in, is_paper, today, faults,
                   snapshot_peak, scheduler, telegram>>

\* One pass of the loop: sleep, test the timeout again, poll, read the
\* first recognized reply if there is one
ApprovalLoopBody ==
    /\ wait.kind = "approval"
    /\ wait.pc = "body"
    /\ IF approval_expired(after_sleep(wait.elapsed, check_interval))
       THEN ApprovalReturns("None", after_sleep(wait.elapsed, check_interval))
       ELSE \E d \in PollSeconds, reply \in Responses :
               IF reply # "None"
               THEN ApprovalReturns(reply, after_sleep(wait.elapsed, check_interval) + d)
               ELSE /\ wait' = [wait EXCEPT !.pc = "test",
                                   !.elapsed = after_sleep(@, check_interval) + d]
                    /\ UNCHANGED <<signals, last>>
    /\ UNCHANGED <<obj, cash, holdings, trades, paused, logged_in, is_paper, today, faults,
                   snapshot_peak, scheduler, telegram>>

\* A venue that accepts the login and the order and has not filled it
WorkingVenue == Env("none", NoQuote, [login |-> TRUE, order |-> TRUE, fill |-> NoPrice])

\* execute_signal(signal) in live mode passes the status test and the risk
\* re-check, logs in, places the order and enters _wait_for_fill
StartFillWait(s) ==
    /\ ~Polling
    /\ ~is_paper
    /\ execute_signal(Cur, s, obj[s], FALSE, today, WorkingVenue).res.msg = "not_filled"
    /\ logged_in' = TRUE
    /\ wait' = [kind |-> "fill", sig |-> s, pc |-> "test", elapsed |-> 0,
                order |-> "Working", result |-> "none"]
    /\ last' = [NoCall EXCEPT !.op = "place_order", !.sig = s]
    /\ UNCHANGED <<signals, obj, cash, holdings, trades, paused, is_paper, today, faults,
                   snapshot_peak, scheduler, telegram>>

\* _wait_for_fill returned None: cancel_order (it cancels an order still
\* working), CANCELLED, failure returned
FillReturnsNone(elapsed) ==
    /\ signals' = update_signal_status(signals, wait.sig, CANCELLED, NoTrade)
    /\ wait' = [Returned("None", elapsed) EXCEPT
                   !.order = IF @ = "Working" THEN "Cancelled" ELSE @]
    /\ last' = Call("execute_signal", wait.sig,
                    Result(FALSE, "not_filled", "venue", FALSE), "none")
    /\ UNCHANGED <<cash, holdings, trades>>

\* _wait_for_fill returned the average fill price: the rest of
\* _execute_live_trade records the trade and marks the signal
FillReturnsPrice(r, elapsed) ==
    /\ signals' = r.st.signals
    /\ cash' = r.st.cash
    /\ holdings' = r.st.holdings
    /\ trades' = r.st.trades
    /\ wait' = Returned("Filled", elapsed)
    /\ last' = Call("execute_signal", wait.sig, r.res, "none")

\* while time.time() - start_time < timeout_seconds
FillLoopTest ==
    /\ wait.kind = "fill"
    /\ wait.pc = "test"
    /\ IF fill_expired(wait.elapsed)
       THEN FillReturnsNone(wait.elapsed)
       ELSE /\ wait' = [wait EXCEPT !.pc = "body"]
            /\ UNCHANGED <<signals, cash, holdings, trades, last>>
    /\ UNCHANGED <<obj, paused, logged_in, is_paper, today, faults, snapshot_peak,
                   scheduler, telegram>>

\* One pass of the loop: get_order_status (seen: it found the order), return
\* on Filled, Cancelled or Rejected, sleep otherwise
FillLoopBody ==
    /\ wait.kind = "fill"
    /\ wait.pc = "body"
    /\ \E d \in StatusSeconds, seen \in BOOLEAN :
          IF seen /\ wait.order = "Filled"
          THEN \E f \in FillPrices :
                  FillReturnsPrice(record_and_finalize(Cur, wait.sig, f, today, "none"),
                                   wait.elapsed + d)
          ELSE IF seen /\ wait.order \in {"FilledNoPrice", "Cancelled", "Rejected"}
          THEN FillReturnsNone(wait.elapsed + d)
          ELSE /\ wait' = [wait EXCEPT !.pc = "test",
                              !.elapsed = after_sleep(@ + d, fill_check_interval)]
               /\ UNCHANGED <<signals, cash, holdings, trades, last>>
    /\ UNCHANGED <<obj, paused, logged_in, is_paper, today, faults, snapshot_peak,
                   scheduler, telegram>>

\* The venue fills or rejects the working order
VenueUpdate ==
    /\ wait.kind = "fill"
    /\ Polling
    /\ wait.order = "Working"
    /\ \E o \in {"Filled", "FilledNoPrice", "Rejected"} :
          wait' = [wait EXCEPT !.order = o]
    /\ UNCHANGED <<signals, obj, cash, holdings, trades, paused, logged_in, is_paper, today,
                   faults, snapshot_peak, scheduler, telegram, last>>

\* Live trading: each signal is either fresh from its generator or approved
\* and loaded by execute_approved_signals
InitWait ==
    /\ obj \in [Sigs -> {PENDING, APPROVED}]
    /\ signals \in {f \in [Sigs -> {[r EXCEPT !.status = st] :
                                        r \in SignalRows, st \in {PENDING, APPROVED}}] :
                        \A s \in Sigs : f[s].status = obj[s] /\ f[s].action = "BUY"}
    /\ cash = initial_budget
    /\ holdings = <<>>
    /\ trades = <<>>
    /\ paused = FALSE
    /\ logged_in = FALSE
    /\ is_paper = FALSE
    /\ today = 0
    /\ faults = 0
    /\ snapshot_peak = NoSnapshot
    /\ scheduler = NotStarted
    /\ wait = NoWait
    /\ telegram = NoChannel
    /\ last = NoCall

NextWait ==
    \/ \E s \in Sigs : StartApprovalWait(s)
    \/ ApprovalLoopTest
    \/ ApprovalLoopBody
    \/ \E s \in Sigs : StartFillWait(s)
    \/ FillLoopTest
    \/ FillLoopBody
    \/ VenueUpdate

SpecWait == InitWait /\ [][NextWait]_vars

\* The thread inside a loop keeps running: sleep, the poll and the status
\* call all return
SpecWaitLive ==
    /\ SpecWait
    /\ WF_vars(ApprovalLoopTest)
    /\ WF_vars(ApprovalLoopBody)
    /\ WF_vars(FillLoopTest)
    /\ WF_vars(FillLoopBody)

\* Replies over Telegram across the waits of one thread: updates arrive at
\* the Bot API at any time, and each wait reads them through getUpdates
MaxUpdates == 3

Max(a, b) == IF a >= b THEN a ELSE b

\* getUpdates answers with the update_ids from offset on, from the earliest
\* unconfirmed update for offset 0; get_updates returns [] when the request
\* fails
get_updates(ch, offset, ok) ==
    IF ~ok THEN {}
    ELSE Max(offset, ch.confirmed + 1)..Len(ch.updates)

\* getUpdates with an offset confirms the updates below it
confirm(ch, offset, ok) ==
    IF ok /\ offset > 0 THEN Max(ch.confirmed, offset - 1) ELSE ch.confirmed

\* The for loop of wait_for_response over the updates from first on: the
\* first update it returns on (id 0, token "None": it returns on none)
RECURSIVE for_update(_, _)
for_update(updates, first) ==
    IF first > Len(updates) THEN [token |-> "None", id |-> 0]
    ELSE IF telegram_token(updates[first]) # "ignore"
    THEN [token |-> telegram_token(updates[first]), id |-> first]
    ELSE for_update(updates, first + 1)

\* Somebody sends the bot a message; during is the signal whose request is
\* outstanding at that moment (0: none)
UpdateArrives ==
    /\ Len(telegram.updates) < MaxUpdates
    /\ \E text \in Texts, from \in Senders :
          telegram' = [telegram EXCEPT !.updates =
                          Append(@, [text |-> text, from |-> from,
                                     during |-> telegram.sig, decided |-> {}])]
    /\ last' = [NoCall EXCEPT !.op = "update"]
    /\ UNCHANGED <<signals, obj, cash, holdings, trades, paused, logged_in, is_paper, today,
                   faults, snapshot_peak, scheduler, wait>>

\* request_approval(signal): the request is sent, wait_for_response starts
RequestSent(s) ==
    /\ telegram.pc = "idle"
    /\ signals[s].status = PENDING
    /\ s \notin telegram.asked
    /\ telegram' = [telegram EXCEPT !.sig = s, !.pc = "first", !.asked = @ \cup {s}]
    /\ last' = [NoCall EXCEPT !.op = "send_trade_approval_request", !.sig = s,
                              !.success = TRUE]
    /\ UNCHANGED <<signals, obj, cash, holdings, trades, paused, logged_in, is_paper, today,
                   faults, snapshot_peak, scheduler, wait>>

\* wait_for_response before its loop: get_updates(offset=0), and the offset
\* moved past the last update returned
FirstUpdates ==
    /\ telegram.pc = "first"
    /\ \E ok \in BOOLEAN :
          /\ ~ok => faults < MaxFaults
          /\ telegram' = [telegram EXCEPT
                             !.pc = "loop",
                             !.last_update_id =
                                 IF get_updates(telegram, 0, ok) # {}
                                 THEN Len(telegram.updates) + 1 ELSE @]
          /\ faults' = faults + (IF ok THEN 0 ELSE 1)
    /\ last' = [NoCall EXCEPT !.op = "get_updates"]
    /\ UNCHANGED <<signals, obj, cash, holdings, trades, paused, logged_in, is_paper, today,
                   snapshot_peak, scheduler, wait>>

\* wait_for_response found token in update id and returned: the status it
\* wrote, the offset behind that update
ResponseReturned(r) ==
    /\ signals' = request_approval(signals, telegram.sig, TRUE, r.token).signals
    /\ telegram' = [telegram EXCEPT
                       !.confirmed = confirm(telegram, telegram.last_update_id, TRUE),
                       !.last_update_id = r.id + 1,
                       !.updates[r.id].decided =
                           IF r.token \in {"Y", "N"} THEN @ \cup {telegram.sig} ELSE @,
                       !.sig = 0,
                       !.pc = "idle"]
    /\ last' = [NoCall EXCEPT !.op = "wait_for_response", !.sig = telegram.sig,
                              !.response = r.token]
                @@ [update |-> r.id]

\* One pass of the loop of wait_for_response before the timeout:
\* get_updates(offset=_last_update_id) and the for loop over what it returned
PollUpdates ==
    /\ telegram.pc = "loop"
    /\ \E ok \in BOOLEAN :
          /\ ~ok => faults < MaxFaults
          /\ faults' = faults + (IF ok THEN 0 ELSE 1)
          /\ IF ok /\ for_update(telegram.updates,
                                 Max(telegram.last_update_id, telegram.confirmed + 1)).id # 0
             THEN ResponseReturned(for_update(telegram.updates,
                                              Max(telegram.last_update_id,
                                                  telegram.confirmed + 1)))
             ELSE /\ telegram' = [telegram EXCEPT
                                     !.confirmed = confirm(telegram, telegram.last_update_id, ok),
                                     !.last_update_id =
                                         IF get_updates(telegram, @, ok) # {}
                                         THEN Len(telegram.updates) + 1 ELSE @]
                  /\ last' = [NoCall EXCEPT !.op = "get_updates"]
                  /\ UNCHANGED signals
    /\ UNCHANGED <<obj, cash, holdings, trades, paused, logged_in, is_paper, today,
                   snapshot_peak, scheduler, wait>>

\* The timeout passes in the loop: EXPIRED, None returned
ResponseTimeout ==
    /\ telegram.pc = "loop"
    /\ signals' = request_approval(signals, telegram.sig, TRUE, "None").signals
    /\ telegram' = [telegram EXCEPT !.sig = 0, !.pc = "idle"]
    /\ last' = [NoCall EXCEPT !.op = "wait_for_response", !.sig = telegram.sig,
                              !.response = "None"]
                @@ [update |-> 0]
    /\ UNCHANGED <<obj, cash, holdings, trades, paused, logged_in, is_paper, today, faults,
                   snapshot_peak, scheduler, wait>>

NextReplies ==
    \/ UpdateArrives
    \/ \E s \in Sigs : RequestSent(s)
    \/ FirstUpdates
    \/ PollUpdates
    \/ ResponseTimeout

\* The signals of InitApproval, with a bot that has just been constructed
SpecReplies == InitApproval /\ [][NextReplies]_vars


----------------------------------------------------------------------------
(* Properties *)

LedgerUnchanged == cash' = cash /\ holdings' = holdings /\ trades' = trades

TradesOf(s) == {i \in 1..Len(trades) : trades[i].signal_id = s}

AllowedTransitions ==
    {<<PENDING, APPROVED>>, <<PENDING, REJECTED>>, <<PENDING, EXPIRED>>,
     <<APPROVED, EXECUTED>>, <<APPROVED, CANCELLED>>}

\* C1: execute_signal on a signal whose status is not APPROVED returns a
\* failure that names that status and changes neither cash, holdings, trades
\* nor any signal row.
C1_NotApprovedIsNoOp ==
    [][\A s \in Sigs :
          (last'.op = "execute_signal" /\ last'.sig = s /\ obj[s] # APPROVED)
          => /\ ~last'.success
             /\ ~last'.raised
             /\ last'.msg = "not_approved"
             /\ last'.reason = obj[s]
             /\ LedgerUnchanged
             /\ signals' = signals
             /\ paused' = paused]_vars

C1_Witness ==
    /\ last.op = "execute_signal"
    /\ last.msg = "not_approved"
    /\ last.reason = EXECUTED
    /\ signals[last.sig].status = EXECUTED
    /\ Len(trades) > 0

\* C2: no signal ever has more than one Trade recorded for it, whatever
\* sequence of execute_signal and execute_approved_signals calls is made.
C2_AtMostOneTradePerSignal ==
    \A s \in Sigs : Cardinality(TradesOf(s)) <= 1

\* C3: a signal's stored status changes only along PENDING -> APPROVED,
\* REJECTED or EXPIRED and APPROVED -> EXECUTED or CANCELLED; a terminal
\* status never changes.
C3_StatusTransitions ==
    [][\A s \in Sigs :
          signals'[s].status # signals[s].status
          => <<signals[s].status, signals'[s].status>> \in AllowedTransitions]_vars

\* C4: in _process_signal, after request_approval returned the approve
\* response, execute_signal does not answer "not approved".
C4_ApprovedIsExecuted ==
    (last.op = "process_signal" /\ last.response = "Y") => last.msg # "not_approved"

\* C5: once _process_signal has returned for a signal, the signal is in a
\* terminal status.
C5_ProcessedIsTerminal ==
    last.op = "process_signal" => signals[last.sig].status \in Terminal

\* C6: when execute_signal ends by setting the signal CANCELLED, cash,
\* holdings and trades are what they were before the call.
C6_CancelledLeavesLedger ==
    [][\A s \in Sigs :
          (/\ last'.op = "execute_signal"
           /\ last'.sig = s
           /\ last'.msg \in {"risk_failed", "exec_failed", "order_failed", "not_filled"}
           /\ signals'[s].status = CANCELLED)
          => LedgerUnchanged]_vars

\* C7: no exception leaves execute_signal.
C7_NoExceptionEscapes ==
    last.op = "execute_signal" => ~last.raised

\* The risk re-check execute_signal makes for signal s in the current state,
\* when _get_current_price answers q.
RiskRecheck(s, q) ==
    LET pd == get_portfolio_value(cash, holdings, q) IN
    pre_trade_check(paused, trades, today, signals[s].action, signals[s].quantity,
                    signals[s].price, pd.cash_balance, get_holdings_count(holdings),
                    pd.total_value, pd.total_value)

\* C8: execute_signal on an APPROVED signal whose risk re-check is not
\* allowed sets the signal CANCELLED, returns a failure carrying the risk
\* reason, and touches neither the venue session nor the ledger.
C8_RiskRejectionCancels ==
    [][\A s \in Sigs :
          (/\ last'.op = "execute_signal"
           /\ last'.sig = s
           /\ obj[s] = APPROVED
           /\ ~last'.raised
           /\ \A q \in Quotes : ~RiskRecheck(s, q).ok)
          => /\ signals'[s].status = CANCELLED
             /\ \A t \in Sigs \ {s} : signals'[t] = signals[t]
             /\ ~last'.success
             /\ last'.msg = "risk_failed"
             /\ \A q \in Quotes : last'.reason = RiskRecheck(s, q).reason
             /\ LedgerUnchanged
             /\ logged_in' = logged_in]_vars

C8_Witness ==
    /\ last.op = "execute_signal"
    /\ last.msg = "risk_failed"
    /\ last.reason = "position"
    /\ obj[last.sig] = APPROVED
    /\ signals[last.sig].status = CANCELLED

\* C9: while the pause flag is set, pre_trade_check answers not-allowed with
\* the pause reason for every input, and leaves the flag set.
C9_PausedRejectsAll ==
    [][(last'.op = "pre_trade_check" /\ paused)
       => (~last'.ok /\ last'.reason = "paused" /\ paused')]_vars

C9_Witness ==
    /\ last.op = "pre_trade_check"
    /\ last.reason = "paused"
    /\ last.args.action = "SELL"
    /\ last.args.peak_value = 0
    /\ trades = <<>>
    /\ paused

Breach(a) ==
    /\ a.peak_value > 0
    /\ (a.portfolio_value - a.peak_value) * 100 <= max_drawdown_pct * a.peak_value

\* C10: pre_trade_check called with a drawdown at or beyond max_drawdown_pct
\* answers not-allowed and the pause flag is set afterwards; a set flag stays
\* set across every pre_trade_check call, and resume_trading clears it.
C10_DrawdownPausesUntilResume ==
    [][/\ (last'.op = "pre_trade_check" /\ Breach(last'.args))
          => (~last'.ok /\ paused')
       /\ (last'.op = "pre_trade_check" /\ paused) => paused'
       /\ (last'.op = "resume_trading") => ~paused']_vars

C10_Witness ==
    /\ last.op = "pre_trade_check"
    /\ last.reason = "drawdown"
    /\ last.args.portfolio_value = 850
    /\ last.args.peak_value = 1000
    /\ paused

ExecutorOps == {"execute_signal", "execute_approved_signals", "process_signal"}

\* C11: while the pause flag is set, no execute_signal,
\* execute_approved_signals or _process_signal call changes cash, holdings or
\* trades, and only resume_trading clears the flag.
C11_PausedFreezesTrading ==
    [][/\ (paused /\ last'.op \in ExecutorOps) => (LedgerUnchanged /\ paused')
       /\ (paused /\ ~paused') => last'.op = "resume_trading"]_vars

C11_Witness ==
    /\ paused
    /\ last.op = "execute_signal"
    /\ last.msg = "risk_failed"
    /\ last.reason = "paused"
    /\ signals[last.sig].status = CANCELLED
    /\ trades = <<>>

TradesOn(trs, d) == {i \in 1..Len(trs) : trs[i].day = d}

\* C15: execute_signal on an APPROVED signal is refused when the trades
\* executed since the start of the day number max_daily_trades or more, and
\* the trades recorded within one day never exceed max_daily_trades.
C15_DailyTradeLimit ==
    [][/\ \A s \in Sigs :
             (/\ last'.op = "execute_signal"
              /\ last'.sig = s
              /\ obj[s] = APPROVED
              /\ ~last'.raised
              /\ Cardinality(TradesOn(trades, today)) >= max_daily_trades)
             => (~last'.success /\ last'.msg = "risk_failed" /\ LedgerUnchanged)
       /\ \A d \in 0..MaxDay : Cardinality(TradesOn(trades', d)) <= max_daily_trades]_vars

C15_Witness ==
    /\ last.op = "execute_signal"
    /\ last.msg = "risk_failed"
    /\ last.reason = "daily"
    /\ Cardinality(TradesOn(trades, today)) = max_daily_trades

\* The checks pre_trade_check runs before the BUY-only checks all pass
EarlierChecksPass(a) ==
    /\ ~paused
    /\ ~Breach(a)
    /\ check_daily_trades(trades, today).ok
    /\ check_pdt_rule(trades, today).ok

\* C14: when the pause, drawdown, daily-trade, PDT and holdings-count checks
\* pass, pre_trade_check rejects a BUY exactly when price * quantity exceeds
\* the maximum position value or the available cash; a SELL is never
\* rejected by the holdings-count or position-size checks.
C14_PositionSizeDecidesBuy ==
    [][(last'.op = "pre_trade_check" /\ EarlierChecksPass(last'.args)) =>
         LET a == last'.args
             position_value == a.price * a.quantity
         IN  /\ (a.action = "BUY" /\ a.current_holdings < max_holdings) =>
                    (~last'.ok <=> (\/ position_value > max_position_value
                                   \/ position_value > a.available_cash))
             /\ a.action = "SELL" => last'.ok]_vars

C14_Witness ==
    /\ last.op = "pre_trade_check"
    /\ last.args.action = "BUY"
    /\ last.args.current_holdings < max_holdings
    /\ last.args.price * last.args.quantity <= max_position_value
    /\ last.args.price * last.args.quantity > last.args.available_cash
    /\ ~last.ok
    /\ last.reason = "position"
    /\ ~paused

\* (symbol, date) pairs of the rolling window that have both a BUY and a SELL
PdtPairs(trs, day) ==
    LET window == {i \in 1..Len(trs) : trs[i].day >= day - pdt_window_days}
    IN  {<<trs[i].symbol, trs[i].day>> : i \in
            {i \in window : trs[i].action = "BUY" /\
                \E j \in window : /\ trs[j].action = "SELL"
                                  /\ trs[j].symbol = trs[i].symbol
                                  /\ trs[j].day = trs[i].day}}

\* C16: for every trade history, the PDT check of pre_trade_check rejects
\* exactly when the rolling window holds pdt_limit or more distinct
\* (symbol, date) pairs that have both a BUY and a SELL.
C16_PdtCountsDistinctPairs ==
    [][(/\ last'.op = "pre_trade_check"
        /\ ~paused
        /\ ~Breach(last'.args)
        /\ check_daily_trades(trades, today).ok)
       => ((last'.reason = "pdt") <=>
              Cardinality(PdtPairs(trades, today)) >= pdt_limit)]_vars

\* C12: execute_signal on an APPROVED signal, when the total value it reads
\* has declined from the peak recorded by the latest snapshot by
\* max_drawdown_pct or more, cancels the signal and sets the pause flag.
C12_DrawdownAgainstSnapshotPeak ==
    [][\A s \in Sigs :
          (/\ last'.op = "execute_signal"
           /\ last'.sig = s
           /\ obj[s] = APPROVED
           /\ ~last'.raised
           /\ snapshot_peak # NoSnapshot
           /\ RatLeq(RatMul(RatSub(last'.value, snapshot_peak), RatInt(100)),
                     RatMul(RatInt(max_drawdown_pct), snapshot_peak)))
          => (signals'[s].status = CANCELLED /\ paused' /\ LedgerUnchanged)]_vars

\* C13: starting from at most max_holdings holdings, the number of open
\* holdings never exceeds max_holdings, and execute_signal refuses every BUY
\* made while max_holdings or more holdings are open.
C13_HoldingsLimit ==
    [][/\ Cardinality(DOMAIN holdings') <= max_holdings
       /\ \A s \in Sigs :
             (/\ last'.op = "execute_signal"
              /\ last'.sig = s
              /\ obj[s] = APPROVED
              /\ ~last'.raised
              /\ signals[s].action = "BUY"
              /\ Cardinality(DOMAIN holdings) >= max_holdings)
             => (/\ ~last'.success
                 /\ last'.msg = "risk_failed"
                 /\ signals'[s].status = CANCELLED
                 /\ LedgerUnchanged)]_vars

C13_Witness ==
    /\ last.op = "execute_signal"
    /\ last.msg = "risk_failed"
    /\ last.reason = "holdings"
    /\ signals[last.sig].action = "BUY"
    /\ signals[last.sig].symbol \notin DOMAIN holdings
    /\ Cardinality(DOMAIN holdings) = max_holdings

\* The call returned because the wait timed out
TimedOut(s) ==
    /\ last'.op = "request_approval"
    /\ last'.sig = s
    /\ last'.sent
    /\ last'.response = "None"

\* C17: a timeout of the wait moves a PENDING signal to EXPIRED, leaves an
\* EXPIRED signal and everything else as they are, and never moves an
\* APPROVED, REJECTED, EXECUTED or CANCELLED signal to EXPIRED.
C17_TimeoutExpiresOnlyPending ==
    [][\A s \in Sigs : TimedOut(s) =>
          /\ signals[s].status = PENDING =>
                signals' = update_signal_response(signals, s, EXPIRED)
          /\ signals[s].status = EXPIRED => signals' = signals
          /\ signals[s].status \in {APPROVED, REJECTED, EXECUTED, CANCELLED} =>
                signals'[s].status # EXPIRED]_vars

\* C18: a reply moves a signal to APPROVED or REJECTED only if it arrives
\* no later than the signal's own expires_at.
C18_NoReplyAfterExpiresAt ==
    [][\A s \in Sigs :
          (/\ last'.op = "request_approval"
           /\ last'.sig = s
           /\ last'.response \in {"Y", "N"}
           /\ signals'[s].status \in {APPROVED, REJECTED})
          => last'.by.at <= signals[s].expires_at]_vars

C20_OnlyCounterpartTokens ==
    [][\A s \in Sigs :
          (/\ last'.op = "request_approval"
           /\ last'.sig = s
           /\ \/ last'.response \in {"Y", "N", "M"}
              \/ signals'[s].status \in {APPROVED, REJECTED} \ {signals[s].status})
          => (/\ last'.by.from = chat_id
              /\ upper(strip(last'.by.text)) \in
                    ApproveTokens \cup RejectTokens \cup ModifyTokens)]_vars

\* The call got past the status test and the risk re-check without an exception
Dispatched(s) ==
    /\ last'.op = "execute_signal"
    /\ last'.sig = s
    /\ obj[s] = APPROVED
    /\ ~last'.raised
    /\ last'.msg # "risk_failed"

ExpectedPrice(s) == IF is_paper THEN signals[s].price ELSE last'.venue.fill

\* C22: whenever execute_signal records a Trade, the Trade's price, the cash
\* movement and the cost added to a bought Holding use the signal's
\* suggested price in paper mode and the venue's average fill price in live mode.
C22_RecordedPrice ==
    [][\A s \in Sigs :
          (Dispatched(s) /\ Len(trades') = Len(trades) + 1) =>
             LET t == trades'[Len(trades')]
                 sig == signals[s]
                 total == sig.quantity * ExpectedPrice(s)
             IN  /\ t.price = ExpectedPrice(s)
                 /\ t.total_value = total
                 /\ sig.action = "BUY" =>
                       /\ cash' = cash - total
                       /\ sig.symbol \in DOMAIN holdings'
                       /\ holdings'[sig.symbol].total_cost =
                             RatAdd(IF sig.symbol \in DOMAIN holdings
                                    THEN holdings[sig.symbol].total_cost
                                    ELSE RatInt(0), RatInt(total))
                 /\ sig.action = "SELL" => cash' = cash + total]_vars

C22_Witness ==
    /\ last.op = "execute_signal"
    /\ ~is_paper
    /\ last.success
    /\ last.venue.fill \in FillPrices
    /\ last.venue.fill # signals[last.sig].price
    /\ trades # <<>>
    /\ trades[Len(trades)].price = last.venue.fill

\* C23: execute_approved_signals returns one result for every signal that
\* was APPROVED when it was called; no failure while executing one signal
\* keeps the remaining signals from being processed.
C23_OneResultPerApprovedSignal ==
    [][last'.op = "execute_approved_signals" =>
          /\ ~last'.raised
          /\ last'.results = {s \in Sigs : signals[s].status = APPROVED}]_vars

RatEq(a, b) == a.n * b.d = b.n * a.d

\* record_sell returned, on a symbol that was held
SoldHeld ==
    /\ last'.op = "record_sell"
    /\ ~last'.raised
    /\ last'.symbol \in DOMAIN holdings

\* C24: every Holding has quantity > 0 (holdings are keyed by symbol, one
\* row each), and a record_sell of at least the holding's quantity removes
\* the Holding.
C24_HoldingsPositive ==
    [][/\ \A sym \in DOMAIN holdings' : holdings'[sym].quantity > 0
       /\ (SoldHeld /\ last'.quantity >= holdings[last'.symbol].quantity)
             => last'.symbol \notin DOMAIN holdings']_vars

C24_Witness ==
    /\ last.op = "record_sell"
    /\ ~last.raised
    /\ last.symbol \notin DOMAIN holdings
    /\ Len(trades) >= 2
    /\ trades[Len(trades) - 1].action = "BUY"
    /\ trades[Len(trades) - 1].symbol = last.symbol
    /\ trades[Len(trades) - 1].quantity = last.quantity

\* C25: every Holding has avg_buy_price * quantity = total_cost, and a buy
\* of qty at price on an existing holding gives quantity old + qty,
\* total_cost old + qty * price and avg_buy_price total_cost / quantity.
C25_AverageCost ==
    [][/\ \A sym \in DOMAIN holdings' :
             RatEq(RatMul(holdings'[sym].avg_buy_price, RatInt(holdings'[sym].quantity)),
                   holdings'[sym].total_cost)
       /\ (/\ last'.op = "record_buy"
           /\ ~last'.raised
           /\ last'.symbol \in DOMAIN holdings)
          => LET old == holdings[last'.symbol]
                 new == holdings'[last'.symbol]
             IN  /\ new.quantity = old.quantity + last'.quantity
                 /\ RatEq(new.total_cost,
                          RatAdd(old.total_cost, RatInt(last'.quantity * last'.price)))
                 /\ RatEq(new.avg_buy_price,
                          RatDiv(new.total_cost, RatInt(new.quantity)))]_vars

\* 10 @ 10 then 10 @ 20: quantity 20, total_cost 300, average 15
C25_Witness ==
    /\ last.op = "record_buy"
    /\ Len(trades) = 2
    /\ trades[1].symbol = "X" /\ trades[1].quantity = 10 /\ trades[1].price = 10
    /\ trades[2].symbol = "X" /\ trades[2].quantity = 10 /\ trades[2].price = 20
    /\ "X" \in DOMAIN holdings
    /\ holdings["X"].quantity = 20
    /\ RatEq(holdings["X"].total_cost, RatInt(300))
    /\ RatEq(holdings["X"].avg_buy_price, RatInt(15))

\* C26: record_sell(symbol, qty, price) on a holding of quantity q and
\* average cost a credits cash by qty * price, records a SELL Trade with
\* profit_loss (price - a) * qty, deletes the Holding if qty >= q, and
\* otherwise leaves it with average cost a, quantity q - qty and total_cost
\* (q - qty) * a.
C26_RecordSell ==
    [][SoldHeld =>
          LET old == holdings[last'.symbol]
              qty == last'.quantity
              t == trades'[Len(trades')]
          IN  /\ cash' = cash + qty * last'.price
              /\ Len(trades') = Len(trades) + 1
              /\ t.action = "SELL" /\ t.symbol = last'.symbol /\ t.quantity = qty
              /\ RatEq(t.profit_loss,
                       RatMul(RatSub(RatInt(last'.price), old.avg_buy_price), RatInt(qty)))
              /\ qty >= old.quantity => last'.symbol \notin DOMAIN holdings'
              /\ qty < old.quantity =>
                    /\ last'.symbol \in DOMAIN holdings'
                    /\ holdings'[last'.symbol].quantity = old.quantity - qty
                    /\ RatEq(holdings'[last'.symbol].avg_buy_price, old.avg_buy_price)
                    /\ RatEq(holdings'[last'.symbol].total_cost,
                             RatMul(RatInt(old.quantity - qty), old.avg_buy_price))]_vars

C26_Witness ==
    /\ last.op = "record_sell"
    /\ ~last.raised
    /\ last.symbol \in DOMAIN holdings
    /\ holdings[last.symbol].quantity = 5
    /\ last.quantity = 5
    /\ RatEq(holdings[last.symbol].avg_buy_price, RatInt(15))
    /\ RatEq(holdings[last.symbol].total_cost, RatInt(75))

\* C27: each snapshot take_snapshot adds has a peak_value no lower than the
\* previous snapshot's, peak_value >= total_value, and drawdown =
\* total_value - peak_value <= 0.
C27_PeakIsWatermark ==
    [][last'.op = "take_snapshot" =>
          /\ snapshot_peak # NoSnapshot => RatLeq(snapshot_peak, last'.peak_value)
          /\ RatLeq(last'.total_value, last'.peak_value)
          /\ RatEq(last'.drawdown, RatSub(last'.total_value, last'.peak_value))
          /\ RatLeq(last'.drawdown, RatInt(0))]_vars

\* A snapshot below the peak, the peak being one a snapshot took after a loss
C27_Witness ==
    /\ last.op = "take_snapshot"
    /\ RatLt(last.drawdown, RatInt(0))
    /\ RatLt(last.total_value, RatInt(initial_budget))
    /\ RatLt(last.peak_value, RatInt(initial_budget))

\* The jobs whose thread is inside request_approval, waiting for a reply
InApprovalWait == {j \in Jobs : scheduler.running[j].phase = "waiting"}

\* C28: at no time are two signals in approval wait: the main scan and the
\* stop-loss monitor never overlap.
C28_OneSignalAwaitsReply == Cardinality(InApprovalWait) <= 1

\* C29: a signal's trade_id is set if and only if its status is EXECUTED,
\* and then it is the id of the single Trade whose signal_id is that signal.
C29_TradeIdIffExecuted ==
    \A s \in Sigs :
       /\ signals[s].trade_id # NoTrade <=> signals[s].status = EXECUTED
       /\ signals[s].trade_id # NoTrade => TradesOf(s) = {signals[s].trade_id}

\* execute_signal is called in paper mode, with nothing failing, on the
\* APPROVED BUY of 2 X at 150, with cash 1000 and nothing held or traded
PaperBuyOfX(s) ==
    /\ last'.op = "execute_signal"
    /\ last'.sig = s
    /\ ~last'.raised
    /\ faults' = faults
    /\ is_paper
    /\ ~paused
    /\ obj[s] = APPROVED
    /\ signals[s].status = APPROVED
    /\ signals[s].symbol = "X"
    /\ signals[s].action = "BUY"
    /\ signals[s].price = 150
    /\ signals[s].quantity = 2
    /\ cash = 1000
    /\ holdings = <<>>
    /\ trades = <<>>

CheckOrder == <<"paused", "drawdown", "daily", "pdt", "holdings", "position">>

\* Check c, taken on its own, rejects the call with arguments a
CheckFails(c, a) ==
    IF c = "paused" THEN paused
    ELSE IF c = "drawdown" THEN Breach(a)
    ELSE IF c = "daily" THEN ~check_daily_trades(trades, today).ok
    ELSE IF c = "pdt" THEN ~check_pdt_rule(trades, today).ok
    ELSE IF c = "holdings"
    THEN a.action = "BUY" /\ ~check_holdings_limit(a.current_holdings).ok
    ELSE /\ a.action = "BUY"
         /\ ~check_position_size(a.price, a.quantity, a.available_cash).ok

FailingChecks(a) == {i \in DOMAIN CheckOrder : CheckFails(CheckOrder[i], a)}

\* C31: pre_trade_check runs its checks in the order pause flag, drawdown,
\* daily trade count, PDT, holdings count (BUY only), position size (BUY
\* only); the first failing check alone gives the rejection reason, whatever
\* the checks after it would say, and the call is allowed when none fails.
C31_FirstFailingCheckDecides ==
    [][last'.op = "pre_trade_check" =>
          LET failing == FailingChecks(last'.args) IN
          IF failing = {}
          THEN last'.ok
          ELSE /\ ~last'.ok
               /\ \E i \in failing :
                     /\ \A j \in failing : i <= j
                     /\ last'.reason = CheckOrder[i]]_vars

\* A BUY at the daily trade limit and at max_holdings, rejected for the
\* daily trade count
C31_Witness ==
    /\ last.op = "pre_trade_check"
    /\ ~last.ok
    /\ last.reason = "daily"
    /\ last.args.action = "BUY"
    /\ ~check_holdings_limit(last.args.current_holdings).ok
    /\ ~check_position_size(last.args.price, last.args.quantity,
                            last.args.available_cash).ok
    /\ ~paused

\* C32: pre_trade_check never changes cash, holdings, trades or signals, and
\* changes the pause state only when the drawdown threshold is breached:
\* allowed or rejected for any other reason, it leaves the flag as it was.
C32_OnlyDrawdownPauses ==
    [][last'.op = "pre_trade_check" =>
          /\ LedgerUnchanged
          /\ signals' = signals
          /\ paused' # paused => (~paused /\ paused' /\ Breach(last'.args)
                                  /\ last'.reason = "drawdown")
          /\ last'.reason # "drawdown" => paused' = paused]_vars

\* A rejection by the daily trade count that leaves the flag clear
C32_Witness ==
    /\ last.op = "pre_trade_check"
    /\ ~last.ok
    /\ last.reason \in {"daily", "pdt"}
    /\ ~paused
    /\ trades # <<>>

\* C33: every record_buy that returns, a top-up of an existing holding
\* included, leaves the holding with stop_loss_price = price * (1 +
\* stop_loss_pct / 100) and take_profit_price = price * (1 + take_profit_pct
\* / 100) for the price of that buy, not for the weighted-average cost.
C33_StopsFromFillPrice ==
    [][(last'.op = "record_buy" /\ ~last'.raised) =>
          /\ last'.symbol \in DOMAIN holdings'
          /\ RatEq(RatMul(holdings'[last'.symbol].stop_loss_price, RatInt(100)),
                   RatInt(last'.price * (100 + stop_loss_pct)))
          /\ RatEq(RatMul(holdings'[last'.symbol].take_profit_price, RatInt(100)),
                   RatInt(last'.price * (100 + take_profit_pct)))]_vars

\* A top-up at 20 of a holding bought at 10: average 15, stop-loss 19
C33_Witness ==
    /\ last.op = "record_buy"
    /\ ~last.raised
    /\ last.price = 20
    /\ last.symbol \in DOMAIN holdings
    /\ RatEq(holdings[last.symbol].avg_buy_price, RatInt(15))
    /\ RatEq(holdings[last.symbol].stop_loss_price, RatInt(19))
    /\ RatEq(holdings[last.symbol].take_profit_price, RatInt(22))

\* The longest one pass of each loop takes
ApprovalPass == check_interval + check_interval

FillPass == 1 + fill_check_interval

OrderFilled ==
    /\ wait.kind = "fill"
    /\ wait.pc = "returned"
    /\ wait.order \in {"Filled", "FilledNoPrice"}

\* C38: in live mode, whenever the order the executor placed is filled at
\* the venue, a Trade for it is recorded and the signal is EXECUTED; no
\* signal is left CANCELLED while its order was filled.
C38_LedgerAgreesWithVenue ==
    OrderFilled => /\ signals[wait.sig].status = EXECUTED
                   /\ TradesOf(wait.sig) # {}

\* Cash the recorded Trades account for: SELL values minus BUY values
RECURSIVE NetProceeds(_)
NetProceeds(trs) ==
    IF trs = <<>> THEN 0
    ELSE NetProceeds(Tail(trs))
         + (IF Head(trs).action = "SELL" THEN Head(trs).total_value
            ELSE 0 - Head(trs).total_value)

\* C35: in every reachable state the cash balance equals the initial budget
\* minus the value of all recorded BUY Trades plus the value of all recorded
\* SELL Trades, also after a storage failure inside record_buy or
\* record_sell.
C35_CashMatchesTrades == cash = initial_budget + NetProceeds(trades)

\* C36: the cash balance is never negative after any sequence of signal
\* executions, in paper mode and in live mode.
C36_CashNeverNegative == cash >= 0

\* Total quantity of the Trades of one action for one symbol
RECURSIVE TradedQuantity(_, _, _)
TradedQuantity(trs, action, sym) ==
    IF trs = <<>> THEN 0
    ELSE TradedQuantity(Tail(trs), action, sym)
         + (IF Head(trs).action = action /\ Head(trs).symbol = sym
            THEN Head(trs).quantity ELSE 0)

\* execute_signal ran on an APPROVED SELL signal whose symbol has no Holding
SellOfUnheld ==
    /\ last'.op = "execute_signal"
    /\ obj[last'.sig] = APPROVED
    /\ signals[last'.sig].action = "SELL"
    /\ signals[last'.sig].symbol \notin DOMAIN holdings

\* C37: a SELL is recorded only against shares held: per symbol the SELL
\* Trades never total more than the BUY Trades, and executing an APPROVED
\* SELL signal for a symbol with no open Holding records no Trade and
\* credits no cash.
C37_SellOnlyHeld ==
    [][/\ \A sym \in Symbols : TradedQuantity(trades', "SELL", sym)
                                  <= TradedQuantity(trades', "BUY", sym)
       /\ SellOfUnheld => (trades' = trades /\ cash' = cash)]_vars

\* C40: the position limit holds per holding: after any sequence of
\* executed BUY signals, repeated buys of a held symbol included, no
\* Holding's total_cost exceeds the configured max position value.
C40_PositionLimitPerHolding ==
    \A sym \in DOMAIN holdings :
        RatLeq(holdings[sym].total_cost, RatInt(max_position_value))

\* C39: a reply decides only the signal whose approval request was
\* outstanding when the reply was sent: a message that arrived before a
\* signal's request was sent is never applied to that signal, and one
\* message changes the status of at most one signal.
C39_ReplyDecidesItsSignal ==
    /\ (last.op = "wait_for_response" /\ last.response # "None")
          => telegram.updates[last.update].during = last.sig
    /\ \A u \in 1..Len(telegram.updates) :
          Cardinality(telegram.updates[u].decided) <= 1

====
